---- MODULE Spec2Model ----
(***************************************************************************)
(* A model of the DustGround simulation core: the material systems' grids  *)
(* and particle collections, the cross-material reaction engine            *)
(* (src/src/reactions.py) and the frame loop of ParticleGame (src/app.py). *)
(*                                                                         *)
(* Positions are integers (sim.half adds the half unit of x where a float  *)
(* comparison matters).  A particle is a record [id, x, y, dead, flags];   *)
(* flags holds the names of the attributes wet, is_mud, contaminated that  *)
(* are set; id                                                             *)
(* stands for the Python object identity id(p) and is <<system, n>> for    *)
(* the n-th particle the system ever constructed.                          *)
(*                                                                         *)
(* reactions.apply() is modelled step by step (one action per block of     *)
(* the function) so that the order of rule evaluation and sweeps is        *)
(* visible.  The oil, ruby and blood blocks of apply() only set flags on   *)
(* oil, ruby, blood and metal particles inside try/except and touch no     *)
(* collection; the diamond block never runs because ParticleGame has no    *)
(* diamond_system.  They are left out.                                     *)
(*                                                                         *)
(* log and pre are history variables: log lists the conversions carried    *)
(* out (source particle, rule, number of the apply() call), pre is the     *)
(* content of the systems when the current apply() call began.             *)
(*                                                                         *)
(* The specifications share the variables and Init:                        *)
(*   Spec         reactions.apply() on painted particles                   *)
(*   SpecFrame    the loop of ParticleGame.run() and the steps of update() *)
(*   SpecGrid     add_particle, update and _rebuild_grid of the systems    *)
(*   SpecCluster  add_particle_cluster of every system                     *)
(*   SpecCanvas   pointer events, menus and _draw_on_canvas                *)
(*   SpecStartup  the benchmark thread beside the first frames of run()    *)
(*   SpecSim      update() of one material system, one particle followed   *)
(*   SpecMetal    the occupancy set of MetalSystem                         *)
(*   SpecScaling  recommend_settings as a function                         *)
(*   SpecGov      the governor block of update() over the frames of run()  *)
(*   SpecNpc      the branches of NPC.update and set_user_dragging         *)
(*   SpecBody     NPC.update on the nine particles of one ragdoll          *)
(*   SpecBodyFair SpecBody with update() called in every frame             *)
(* Each leaves the variables of the others unchanged.  game.trace,         *)
(* game.last, game.up and fresh are history variables as well.             *)
(***************************************************************************)
EXTENDS Integers, Sequences, FiniteSets, TLC

VARIABLES particles, grid, made, pc, kill, lp, ret, calls, log, pre,
          fresh, game, cluster, sim, metal, npc, gov

vars == <<particles, grid, made, pc, kill, lp, ret, calls, log, pre,
          fresh, game, cluster, sim, metal, npc, gov>>

\* The state of the reaction engine, and the state outside it.
reactVars == <<pc, kill, lp, ret, calls, log, pre>>
\* The variables of the single-system, metal, ragdoll and governor models.
more == <<sim, metal, npc, gov>>
rest == <<fresh, game, cluster, more>>

\* ---------------------------------------------------------------- bounds
WorldW == 12
WorldH == 3
MaxPaint == 4
MaxWater == 3
MaxOther == 1
MaxCalls == 2
MaxFrames == 17
MaxNpcs == 2
MaxGrid == 2
MaxR == 4
MaxParticles == 1
SimReach == 14
MaxSim == 2
MaxMetal == 4
MaxGovFrames == 18
MaxNpcFrames == 4
MaxBodyFrames == 40

\* The updates in a row after which the ragdoll counts as undisturbed.
Several == 3

\* ------------------------------------------------------ program constants
MAX_N == 12
\* frames between two runs of the adaptive-quality governor (ParticleGame.update)
ScaleEvery == 15
\* still frames after which the torso of a ragdoll goes to sleep
SleepAfter == 20
\* frames a ragdoll burns after touching lava, is poisoned after touching toxic
BurnFrames == 45
ToxicFrames == 90
\* margin of the out-of-bounds cull at the end of update()
CullMargin == 10

Systems == {"sand", "water", "lava", "bluelava", "toxic", "metal", "dirt", "milk"}

\* cell_size of each system (SandSystem.__init__ etc.)
CellSize(sys) == CASE sys = "milk" -> 6
                   [] sys = "dirt" -> 1
                   [] OTHER -> 3

\* Particle classes on which setattr(p, 'dead', True) succeeds: classes
\* without __slots__ (sand, water, metal) or with a 'dead' slot.
HasDeadSlot(sys) == sys \in {"sand", "water", "metal", "bluelava", "milk"}

\* Systems that define sweep_dead().
HasSweep(sys) == sys \in {"water", "lava", "bluelava", "dirt", "milk"}

\* Positions particles are seeded at (arguments of add_particle).
PaintPos == {<<1, 1>>, <<4, 1>>, <<10, 1>>}

Paintable == Systems \ {"metal"}

Unbound == [id |-> <<"none", 0>>, x |-> 0, y |-> 0, dead |-> FALSE]

\* ------------------------------------------------------- sequence helpers
RECURSIVE Flatten(_)
Flatten(ss) == IF ss = <<>> THEN <<>> ELSE Head(ss) \o Flatten(Tail(ss))

Ids(ps) == {ps[i].id : i \in 1..Len(ps)}

\* The numbers of water and toxic particles the wetting rules scan.
WetScan == 3000
MudScan == 2000

\* reactions._limit
Limit(lst, n) == IF Len(lst) <= n THEN lst ELSE SubSeq(lst, 1, n)

\* ------------------------------------------------------------- the grids
\* _get_cell: (int(x // cell_size), int(y // cell_size)); // is floor division.
GetCell(sys, x, y) == <<x \div CellSize(sys), y \div CellSize(sys)>>

\* _rebuild_grid: a dict from cell to the particles in it, in insertion
\* order.  DirtSystem._rebuild_grid clears the grid and fills only its
\* occupancy counter, so the dirt grid has no bucket.
RebuildGrid(sys, ps) ==
    IF sys = "dirt" THEN << >>
    ELSE [c \in {GetCell(sys, ps[i].x, ps[i].y) : i \in 1..Len(ps)} |->
             SelectSeq(ps, LAMBDA p : GetCell(sys, p.x, p.y) = c)]

\* The cells of the (2*radius+1)^2 block, dx outer loop, dy inner loop.
BlockCell(c, radius, k) ==
    <<c[1] - radius + ((k - 1) \div (2 * radius + 1)),
      c[2] - radius + ((k - 1) % (2 * radius + 1))>>

\* ParticleGame._get_nearby_<sys> and <System>._get_neighbors.
Nearby(g, sys, x, y, radius) ==
    LET c == GetCell(sys, x, y)
        n == (2 * radius + 1) * (2 * radius + 1)
    IN Flatten([k \in 1..n |->
                  IF BlockCell(c, radius, k) \in DOMAIN g
                  THEN g[BlockCell(c, radius, k)] ELSE << >>])

\* ------------------------------------------------------ particle creation
InWorld(x, y) == 0 <= x /\ x < WorldW /\ 0 <= y /\ y < WorldH

NewParticle(sys, n, x, y) ==
    [id |-> <<sys, n>>, x |-> x, y |-> y, dead |-> FALSE, flags |-> {}]

\* <System>.add_particle applied to a list of positions, in order:
\* (ps, count of particles made) after the calls.
RECURSIVE AddAll(_, _, _, _)
AddAll(sys, ps, n, pts) ==
    IF pts = << >> THEN [ps |-> ps, n |-> n]
    ELSE LET pt == Head(pts)
         IN IF InWorld(pt.x, pt.y)
            THEN AddAll(sys, Append(ps, NewParticle(sys, n + 1, pt.x, pt.y)), n + 1, Tail(pts))
            ELSE AddAll(sys, ps, n, Tail(pts))

\* ParticleGame.__init__: the main menu is shown, the benchmark thread has
\* not finished, no frame has run, no ragdoll exists.  upc is the position
\* in the body of the loop of run(); trace lists the steps update() has run
\* in the current frame.
\* The material systems ParticleGame constructs, and the tools of the brush.
Materials == {"sand", "water", "oil", "lava", "bluelava", "ruby", "metal",
              "toxic", "milk", "blood", "dirt"}

Tools == Materials \cup {"npc", "blocks"}

\* The last call of _draw_on_canvas that got past the pointer tests: the
\* tool, the particles all systems held before it, the total it computed,
\* the particles it added and whether it moved the dragged ragdoll particle.
NoRequest == [tool |-> "none", before |-> 0, counted |-> 0, added |-> 0, moved |-> FALSE]

\* count[m] is len(<m>_system.particles); active_npc and npc_drag_index are
\* 0 for None; user_dragging is the set of ragdolls (numbered in spawn
\* order) whose user_dragging flag is set; last is a history field.
InitGame ==
    [show_main_menu |-> TRUE, show_pause_menu |-> FALSE, ready |-> FALSE,
     bench_done |-> FALSE, frame_index |-> 0, last_scale_apply |-> 0,
     npcs |-> 0, upc |-> "events", trace |-> << >>,
     current_tool |-> "sand", is_drawing |-> FALSE,
     max_particles |-> MaxParticles, count |-> [m \in Materials |-> 0],
     active_npc |-> 0, npc_drag_index |-> 0, user_dragging |-> {},
     last |-> NoRequest, up |-> FALSE]

\* No add_particle_cluster call in progress.  Positions in at are doubled
\* (at holds <<2x, 2y>>) so that half-unit random offsets stay integers.
InitCluster ==
    [phase |-> "idle", sys |-> "none", cx |-> 0, cy |-> 0, r |-> 0,
     left |-> 0, n |-> 0, at |-> {}]

\* One particle of one material system, followed through the updates of
\* the system; held is FALSE when the system does not hold it (any more).
InitSim == [sys |-> "none", held |-> FALSE, x |-> 0, y |-> 0, half |-> FALSE, n |-> 0,
            phase |-> "idle", threw |-> FALSE, raised |-> FALSE, advanced |-> 0]

\* MetalSystem: ps the integer positions of its particles, cells the
\* occupancy set _cells that is_solid reads, last the latest operation.
InitMetal == [ps |-> {}, cells |-> {}, last |-> "init"]

\* No call of recommend_settings yet.
NoEval == [set |-> FALSE, total |-> 0, fps |-> 0, target |-> 0, gpu |-> FALSE,
           tier |-> 0,
           sand |-> [neighbor_radius |-> 0, max_neighbors |-> 0, skip_mod |-> 0],
           water |-> [neighbor_radius |-> 0, max_neighbors |-> 0, skip_mod |-> 0]]

\* The material systems of the game that carry collision tuning.
TunedSystems == {"sand", "water", "lava", "bluelava", "oil", "toxic", "metal",
                 "ruby", "dirt", "blood"}

\* neighbor_radius, max_neighbors, skip_mod as the constructors set them
\* (DirtSystem has skip_mod only; 0 stands for the missing attribute).
InitTuning ==
    [m \in TunedSystems |->
        CASE m \in {"sand", "ruby"} ->
                 [neighbor_radius |-> 2, max_neighbors |-> 12, skip_mod |-> 1]
          [] m \in {"water", "toxic", "blood"} ->
                 [neighbor_radius |-> 2, max_neighbors |-> 10, skip_mod |-> 1]
          [] m \in {"lava", "bluelava"} ->
                 [neighbor_radius |-> 2, max_neighbors |-> 8, skip_mod |-> 1]
          [] m = "oil" ->
                 [neighbor_radius |-> 2, max_neighbors |-> 14, skip_mod |-> 1]
          [] m = "metal" ->
                 [neighbor_radius |-> 2, max_neighbors |-> 16, skip_mod |-> 1]
          [] OTHER ->
                 [neighbor_radius |-> 0, max_neighbors |-> 0, skip_mod |-> 1]]

\* The governor: cur and prev are the last two direct calls of
\* recommend_settings, tuning the settings of the systems; frame_index and last_scale_apply are
\* the game's counters, iter counts the iterations of the run() loop,
\* eval_iter / eval_index say when the governor was last evaluated and
\* gap_iter / gap_index how far apart the last two evaluations were (-1
\* while there are none).
InitGov == [cur |-> NoEval, prev |-> NoEval, tuning |-> InitTuning,
            frame_index |-> 0, last_scale_apply |-> 0, iter |-> 0,
            eval_iter |-> -1, eval_index |-> -1, gap_iter |-> -1, gap_index |-> -1,
            applied |-> FALSE]

\* ==================================================== the ragdoll's body
\* The coordinates of the ragdoll's particles are floats; the model keeps
\* them in 1/Unit of a pixel and rounds every product to the nearest
\* multiple of that.
Unit == 100

\* dt is 1 / target_fps; target_fps is 60 until the benchmark says 120.
Fps == 60

\* a * num / den, rounded to the nearest integer.
Frac(a, num, den) ==
    IF a >= 0 THEN (a * num + den \div 2) \div den
    ELSE -((-a * num + den \div 2) \div den)

Abs(a) == IF a >= 0 THEN a ELSE -a
Min2(a, b) == IF a <= b THEN a ELSE b
Max2(a, b) == IF a >= b THEN a ELSE b

\* F of the value of v, which is computed once however often F uses it.
With(v, F(_)) == CHOOSE r \in {F(x) : x \in {v}} : TRUE

\* math.sqrt, Vector2.length(): the largest r in lo..hi with r * r <= n.
RECURSIVE SqrtFrom(_, _, _)
SqrtFrom(n, lo, hi) ==
    IF lo >= hi THEN lo
    ELSE With((lo + hi + 1) \div 2, LAMBDA mid :
           IF mid * mid <= n THEN SqrtFrom(n, mid, hi) ELSE SqrtFrom(n, lo, mid - 1))

ISqrt(n) == With(n, LAMBDA m : SqrtFrom(m, 0, 46340))

Length(dx, dy) == ISqrt(dx * dx + dy * dy)

Torso == 0..4
Parts == 0..8

\* A value for each of the nine particles, particle i at index i + 1.
Each(F(_)) == <<F(0), F(1), F(2), F(3), F(4), F(5), F(6), F(7), F(8)>>

\* NPC.__init__: the offsets of head, t1..t4, the arms and the legs from
\* the spawn point, in pixels.
Layout == Each(LAMBDA i :
             CASE i = 0 -> <<0, -60>> [] i = 1 -> <<0, -30>> [] i = 2 -> <<0, 0>>
               [] i = 3 -> <<0, 30>>  [] i = 4 -> <<0, 60>>  [] i = 5 -> <<-30, 5>>
               [] i = 6 -> <<30, 5>>  [] i = 7 -> <<-8, 120>> [] OTHER -> <<8, 120>>)

SpawnAt(x, y) == Each(LAMBDA i : <<(x + Layout[i + 1][1]) * Unit, (y + Layout[i + 1][2]) * Unit>>)

\* connect(a, b, slack): the ten distance constraints, slack in percent.
Constraints == << <<0, 1, 0>>, <<1, 2, 0>>, <<2, 3, 0>>, <<3, 4, 0>>, <<2, 5, 0>>,
                  <<2, 6, 0>>, <<4, 7, 0>>, <<4, 8, 0>>, <<1, 3, 5>>, <<2, 4, 5>> >>

\* The rest length connect() stores: the distance at spawn times 1 + slack.
Rest(k) ==
    LET c == Constraints[k]
        a == Layout[c[1] + 1]
        b == Layout[c[2] + 1]
    IN Frac(Length((a[1] - b[1]) * Unit, (a[2] - b[2]) * Unit), 100 + c[3], 100)

\* self.gravity * dt * dt, the displacement gravity adds in one update().
Gravity == Frac(1600 * Unit, 1, Fps * Fps)

\* Particle.update(dt) after apply_force: Verlet integration.  The torso
\* gets no gravity while freeze_torso or _sleep_torso is set.
Integrate(b, held) ==
    [b EXCEPT !.pos = Each(LAMBDA i :
                         <<2 * b.pos[i + 1][1] - b.prev[i + 1][1],
                           2 * b.pos[i + 1][2] - b.prev[i + 1][2]
                              + (IF held /\ i \in Torso THEN 0 ELSE Gravity)>>),
              !.prev = b.pos]

\* update(): no particle moves more than max_step = 40 in one call.
CapStep(b) ==
    [b EXCEPT !.pos = Each(LAMBDA i :
        LET sx == b.pos[i + 1][1] - b.prev[i + 1][1]
            sy == b.pos[i + 1][2] - b.prev[i + 1][2]
            d == Length(sx, sy)
        IN IF sx * sx + sy * sy > (40 * Unit) * (40 * Unit) /\ d > 0
           THEN <<b.prev[i + 1][1] + Frac(sx, 40 * Unit, d), b.prev[i + 1][2] + Frac(sy, 40 * Unit, d)>>
           ELSE b.pos[i + 1])]

\* update(): the clamp of every particle into [0, w - 1] x [0, h - 1].
ClampAll(b) ==
    [b EXCEPT !.pos = Each(LAMBDA i :
        <<Max2(0, Min2((b.w - 1) * Unit, b.pos[i + 1][1])),
          Max2(0, Min2((b.h - 1) * Unit, b.pos[i + 1][2]))>>)]

\* world_ground of _resolve_block_contacts.
Ground(b) == (b.h - 1) * Unit

\* _resolve_block_contacts without a solid_query: a foot at or below the
\* world ground is put on it and loses its vertical speed.
FootAbove(b, i) == b.pos[i + 1][2] > Ground(b)
FootDown(b, i) == b.pos[i + 1][2] >= Ground(b)

Contacts(b) ==
    [b EXCEPT !.pos = Each(LAMBDA i :
                         IF i \in {7, 8} /\ FootDown(b, i)
                         THEN <<b.pos[i + 1][1], Ground(b)>> ELSE b.pos[i + 1]),
              !.prev = Each(LAMBDA i :
                         IF i \in {7, 8} /\ FootDown(b, i)
                         THEN <<b.pos[i + 1][1] - Frac(b.pos[i + 1][1] - b.prev[i + 1][1], 2, 10), Ground(b)>>
                         ELSE b.prev[i + 1])]

FeetGrounded(b) == Cardinality({i \in {7, 8} : FootDown(b, i)})

\* fx, the middle of the feet.
FeetX(b) == Frac(b.pos[7 + 1][1] + b.pos[8 + 1][1], 1, 2)

\* update(), rigid_active: the standing pose is written over all nine
\* particles and their previous positions.
StandingPose(b) ==
    LET fx == FeetX(b)
        base_y == Ground(b) - 60 * Unit
        p == Each(LAMBDA i :
                CASE i \in Torso -> <<fx, base_y - (120 - 30 * i) * Unit>>
                  [] i = 5 -> <<fx - 10 * Unit, base_y - 10 * Unit>>
                  [] i = 6 -> <<fx + 10 * Unit, base_y - 10 * Unit>>
                  [] i = 7 -> <<fx - 14 * Unit, Ground(b)>>
                  [] OTHER -> <<fx + 14 * Unit, Ground(b)>>)
    IN [b EXCEPT !.pos = p, !.prev = p]

\* No ragdoll body yet.  pos and prev are the positions and the previous
\* positions of the nine particles, w and h the bounds update() is given,
\* anchor is _stand_anchor_x (anchored: it is not None), at the spawn point.
InitBody ==
    [spawned |-> FALSE, w |-> 0, h |-> 0, at |-> <<0, 0>>,
     pos |-> SpawnAt(0, 0), prev |-> SpawnAt(0, 0),
     anchored |-> FALSE, anchor |-> 0, still |-> 0]

\* One ragdoll after NPC.__init__.  rigid says that the last update()
\* wrote the standing pose; frames counts the update() calls; drag_updates
\* those since set_user_dragging(True); grounded_frames the consecutive
\* updates up to the last with both feet grounded; calm_frames those with
\* both feet grounded, the torso slow and the user not dragging.  path is
\* the exit update() took if it was the last operation ("none" otherwise)
\* and burn_before, toxic_before the timers when that update() began.
InitNpc == [user_dragging |-> FALSE, freeze_torso |-> FALSE,
            sleep_torso |-> FALSE, torso_still_frames |-> 0,
            feet_grounded |-> 0, rigid |-> FALSE, was_rigid |-> FALSE,
            frames |-> 0, drag_updates |-> 0,
            grounded_frames |-> 0, calm_frames |-> 0,
            burn_timer |-> 0, toxic_timer |-> 0,
            burn_before |-> 0, toxic_before |-> 0, path |-> "none",
            body |-> InitBody]

Init ==
    /\ particles = [s \in Systems |-> << >>]
    /\ grid = [s \in Systems |-> << >>]
    /\ made = [s \in Systems |-> 0]
    /\ pc = "idle"
    /\ kill = [s \in Systems |-> {}]
    /\ lp = Unbound
    /\ ret = "none"
    /\ calls = 0
    /\ log = << >>
    /\ pre = [s \in Systems |-> << >>]
    /\ fresh = "none"
    /\ game = InitGame
    /\ cluster = InitCluster
    /\ sim = InitSim
    /\ metal = InitMetal
    /\ npc = InitNpc
    /\ gov = InitGov

\* <System>.add_particle(x, y).
AddParticle(sys, x, y) ==
    /\ pc = "idle"
    /\ made[sys] < (IF sys = "water" THEN MaxWater ELSE MaxOther)
    /\ LET r == AddAll(sys, particles[sys], made[sys], <<[x |-> x, y |-> y]>>)
       IN /\ particles' = [particles EXCEPT ![sys] = r.ps]
          /\ made' = [made EXCEPT ![sys] = r.n]
    /\ UNCHANGED <<grid, pc, kill, lp, ret, calls, log, pre, rest>>

Paint == \E sys \in Paintable, pos \in PaintPos :
            /\ made["sand"] + made["water"] + made["lava"] + made["bluelava"]
                 + made["toxic"] + made["dirt"] + made["milk"] < MaxPaint
            /\ calls = 0
            /\ AddParticle(sys, pos[1], pos[2])

\* ------------------------------------------------------- reactions.apply
\* What one block of apply() asks for: particles to construct in other
\* systems (add_particle calls, in order) and ids to put in the kill sets.
NoKill == [s \in Systems |-> {}]

NoEffect == [spawn |-> << >>, kill |-> NoKill]

Join(e1, e2) == [spawn |-> e1.spawn \o e2.spawn,
                 kill |-> [s \in Systems |-> e1.kill[s] \cup e2.kill[s]]]

RECURSIVE JoinAll(_)
JoinAll(es) == IF es = << >> THEN NoEffect ELSE Join(Head(es), JoinAll(Tail(es)))

\* "for w in found: <to>.add_particle(w.x, w.y); <sys>_to_kill.add(id(w))"
Convert(found, sys, to, rule) ==
    [spawn |-> [i \in 1..Len(found) |->
                  [to |-> to, x |-> found[i].x, y |-> found[i].y,
                   src |-> found[i].id, rule |-> rule]],
     kill |-> [NoKill EXCEPT ![sys] = Ids(found)]]

KillOnly(sys, ids) == [spawn |-> << >>, kill |-> [NoKill EXCEPT ![sys] = ids]]

\* The body of "for lp in list(lava.particles)" (lines 109-168), which is
\* repeated verbatim after the blue-lava loop (lines 258-317).
LavaBody(g, p, rule) ==
    LET waters == Limit(Nearby(g["water"], "water", p.x, p.y, 2), MAX_N)
        sands  == Limit(Nearby(g["sand"], "sand", p.x, p.y, 2), MAX_N)
        dirts  == Limit(Nearby(g["dirt"], "dirt", p.x, p.y, 2), MAX_N)
        milks  == Limit(Nearby(g["milk"], "milk", p.x, p.y, 2), MAX_N)
        toxics == Limit(Nearby(g["toxic"], "toxic", p.x, p.y, 2), MAX_N)
    IN JoinAll(<<
         Convert(waters, "water", "metal", rule),
         IF Len(waters) >= 3 THEN KillOnly("lava", {p.id}) ELSE NoEffect,
         Convert(sands, "sand", "metal", rule),
         Convert(dirts, "dirt", "metal", rule),
         IF Len(dirts) >= 3 THEN KillOnly("lava", {p.id}) ELSE NoEffect,
         KillOnly("milk", Ids(milks)),
         IF Len(milks) >= 2 THEN KillOnly("lava", {p.id}) ELSE NoEffect,
         Convert(toxics, "toxic", "metal", rule) >>)

\* The body of "for bp in list(blue_lava.particles)" (lines 172-257).
\* cool and fuse are the outcomes of random.random() < 0.4 and < 0.02.
BlueBody(g, bp, cool, fuse) ==
    LET waters == Limit(Nearby(g["water"], "water", bp.x, bp.y, 2), MAX_N)
        sands  == Limit(Nearby(g["sand"], "sand", bp.x, bp.y, 2), MAX_N)
        dirts  == Limit(Nearby(g["dirt"], "dirt", bp.x, bp.y, 2), MAX_N)
        toxics == Limit(Nearby(g["toxic"], "toxic", bp.x, bp.y, 2), MAX_N)
        milks  == Limit(Nearby(g["milk"], "milk", bp.x, bp.y, 2), MAX_N)
        near_lava == Nearby(g["lava"], "lava", bp.x, bp.y, 2)
        fused == Limit(near_lava, 3)
    IN JoinAll(<<
         Convert(waters, "water", "metal", "bluelava"),
         IF Len(waters) >= 2 /\ cool THEN KillOnly("lava", {bp.id}) ELSE NoEffect,
         Convert(sands, "sand", "metal", "bluelava"),
         Convert(dirts, "dirt", "metal", "bluelava"),
         Convert(toxics, "toxic", "metal", "bluelava"),
         KillOnly("milk", Ids(milks)),
         IF fuse /\ near_lava # << >>
         THEN Join(KillOnly("lava", {bp.id}), Convert(fused, "lava", "metal", "fuse"))
         ELSE NoEffect >>)

\* "if toxic and get_water" (lines 430-438): a toxic particle touching
\* water becomes a water particle.
ToxicWaterBody(g, tp) ==
    IF Nearby(g["water"], "water", tp.x, tp.y, 1) # << >>
    THEN Convert(<<tp>>, "toxic", "water", "toxicwater")
    ELSE NoEffect

\* Milk particles with sand within 1 cell (lines 481-490); each may be
\* scheduled for removal, by chance.
MilkNearSand(g, ps) ==
    {ps[i].id : i \in {j \in 1..Len(ps) : Nearby(g["sand"], "sand", ps[j].x, ps[j].y, 1) # << >>}}

\* The add_particle calls of an effect, carried out.
Spawned(ps, n, e, to) == AddAll(to, ps[to], n[to], SelectSeq(e.spawn, LAMBDA sp : sp.to = to))

Logged(e, call) ==
    LET ok == SelectSeq(e.spawn, LAMBDA sp : InWorld(sp.x, sp.y))
    IN [i \in 1..Len(ok) |-> [src |-> ok[i].src, to |-> ok[i].to, rule |-> ok[i].rule, call |-> call]]

Carry(e) ==
    /\ particles' = [s \in Systems |->
                       IF s \in {"metal", "water"} THEN Spawned(particles, made, e, s).ps
                       ELSE particles[s]]
    /\ made' = [s \in Systems |->
                       IF s \in {"metal", "water"} THEN Spawned(particles, made, e, s).n
                       ELSE made[s]]
    /\ kill' = [s \in Systems |-> kill[s] \cup e.kill[s]]
    /\ log' = log \o Logged(e, calls)

\* The systems apply() rebuilds before the rules (lines 36-82); the grids
\* of metal and blue lava are not rebuilt.
Rebuilt == {"sand", "water", "toxic", "lava", "dirt", "milk"}

ApplyBegin ==
    /\ pc = "idle"
    /\ calls < MaxCalls
    /\ grid' = [s \in Systems |-> IF s \in Rebuilt THEN RebuildGrid(s, particles[s]) ELSE grid[s]]
    /\ kill' = NoKill
    /\ lp' = Unbound
    /\ ret' = "none"
    /\ calls' = calls + 1
    /\ pc' = "lava"
    /\ pre' = particles
    /\ UNCHANGED <<particles, made, log, rest>>

\* lines 108-168
StepLava ==
    /\ pc = "lava"
    /\ LET ls == particles["lava"]
       IN /\ Carry(JoinAll([i \in 1..Len(ls) |-> LavaBody(grid, ls[i], "lava")]))
          /\ lp' = IF ls = << >> THEN Unbound ELSE ls[Len(ls)]
    /\ pc' = "bluelava"
    /\ UNCHANGED <<grid, ret, calls, pre, rest>>

\* lines 170-317: the blue-lava loop, then the repeated lava block, which
\* reads the loop variable lp of the first loop; lp is unbound when the lava
\* system is empty and reading it raises UnboundLocalError.
StepBlueLava ==
    /\ pc = "bluelava"
    /\ LET bs == particles["bluelava"]
       IN \E ch \in [1..Len(bs) -> [cool : BOOLEAN, fuse : BOOLEAN]] :
            LET blue == JoinAll([i \in 1..Len(bs) |-> BlueBody(grid, bs[i], ch[i].cool, ch[i].fuse)])
            IN IF lp = Unbound
               THEN /\ Carry(blue)
                    /\ pc' = "idle"
                    /\ ret' = "UnboundLocalError"
               ELSE /\ Carry(Join(blue, LavaBody(grid, lp, "tail")))
                    /\ pc' = "rules"
                    /\ ret' = ret
    /\ UNCHANGED <<grid, lp, calls, pre, rest>>

\* lines 430-438 and 470-490
StepRules ==
    /\ pc = "rules"
    /\ LET ts == particles["toxic"]
           tw == JoinAll([i \in 1..Len(ts) |-> ToxicWaterBody(grid, ts[i])])
       IN \E chosen \in SUBSET MilkNearSand(grid, particles["milk"]) :
            Carry(Join(tw, KillOnly("milk", chosen)))
    /\ pc' = "sweep_sand"
    /\ UNCHANGED <<grid, lp, ret, calls, pre, rest>>

\* lines 607-636, one block per system, in this order.
SweepOrder == <<"sand", "water", "lava", "dirt", "toxic", "milk">>

SweepPc(s) == "sweep_" \o s

AfterSweep(i) == IF i = Len(SweepOrder) THEN "idle" ELSE SweepPc(SweepOrder[i + 1])

\* "for p in sys.particles: if id(p) in to_kill: setattr(p, 'dead', True)"
MarkDead(ps, ids) == [i \in 1..Len(ps) |-> IF ps[i].id \in ids THEN [ps[i] EXCEPT !.dead = TRUE] ELSE ps[i]]

\* <System>.sweep_dead
SweepDead(ps) == SelectSeq(ps, LAMBDA p : ~p.dead)

StepSweep ==
    \E i \in 1..Len(SweepOrder) :
      LET s == SweepOrder[i]
          hit == Ids(particles[s]) \cap kill[s]
      IN /\ pc = SweepPc(s)
         /\ IF kill[s] = {}
            THEN /\ pc' = AfterSweep(i)
                 /\ ret' = IF i = Len(SweepOrder) THEN "returned" ELSE ret
                 /\ UNCHANGED particles
            ELSE IF hit # {} /\ ~HasDeadSlot(s)
            THEN /\ pc' = "idle"
                 /\ ret' = "AttributeError"
                 /\ UNCHANGED particles
            ELSE IF ~HasSweep(s)
            THEN /\ pc' = "idle"
                 /\ ret' = "AttributeError"
                 /\ particles' = [particles EXCEPT ![s] = MarkDead(particles[s], kill[s])]
            ELSE /\ pc' = AfterSweep(i)
                 /\ ret' = IF i = Len(SweepOrder) THEN "returned" ELSE ret
                 /\ particles' = [particles EXCEPT ![s] = SweepDead(MarkDead(particles[s], kill[s]))]
         /\ UNCHANGED <<grid, made, kill, lp, calls, log, pre, rest>>

Next ==
    \/ Paint
    \/ ApplyBegin
    \/ StepLava
    \/ StepBlueLava
    \/ StepRules
    \/ StepSweep

Spec == Init /\ [][Next]_vars

\* ------------------------------------------------------------ properties
Finished == pc = "idle" /\ ret # "none"

CountAt(ps, x, y) == Cardinality({i \in 1..Len(ps) : ps[i].x = x /\ ps[i].y = y})

WithinCells(sys, p, q, radius) ==
    LET cp == GetCell(sys, p.x, p.y)
        cq == GetCell(sys, q.x, q.y)
    IN /\ cq[1] - cp[1] \in (-radius)..radius
       /\ cq[2] - cp[2] \in (-radius)..radius

\* The seed of the quench scenario: one lava particle, 3 water particles
\* within 2 grid cells of it, every other system empty.
QuenchSeed(ps) ==
    /\ Len(ps["lava"]) = 1
    /\ Len(ps["water"]) = 3
    /\ \A s \in Systems \ {"lava", "water"} : ps[s] = << >>
    /\ \A i \in 1..3 : WithinCells("water", ps["lava"][1], ps["water"][i], 2)

\* C1: after one apply() on the quench seed the 3 water particles are gone,
\* exactly 3 metal particles exist, one at each water particle's former
\* position, and the lava particle is gone.
C1_Quench ==
    (Finished /\ calls = 1 /\ QuenchSeed(pre)) =>
        /\ particles["water"] = << >>
        /\ Len(particles["metal"]) = 3
        /\ \A pos \in PaintPos :
             CountAt(particles["metal"], pos[1], pos[2]) = CountAt(pre["water"], pos[1], pos[2])
        /\ particles["lava"] = << >>

\* C2: within one apply() call no particle is the source of two conversions.
C2_ConvertedOnce ==
    \A i, j \in DOMAIN log :
        (i # j /\ log[i].call = log[j].call) => log[i].src # log[j].src

\* C3: when apply() has returned, no particle whose id was put in a kill set
\* is still in the collection of the system that owns it.
C3_ScheduledAbsent ==
    (pc = "idle" /\ ret = "returned") =>
        \A s \in Systems : \A id \in kill[s] : id \notin Ids(particles[id[1]])

\* C4: apply() never ends by raising.
C4_NoRaise == ret \in {"none", "returned"}

\* C5: a particle converted by one apply() call is not converted again by a
\* later call.
C5_NoReconvert ==
    \A i, j \in DOMAIN log :
        log[i].call < log[j].call => log[i].src # log[j].src

RulePcs == {"lava", "bluelava", "rules", "sweep_sand"}

\* The first half of C6 alone: while the rules are evaluated no collection
\* loses a particle.
NoEarlyRemoval ==
    pc \in RulePcs => \A s \in Systems : Ids(pre[s]) \subseteq Ids(particles[s])

\* C6: no particle is removed before every rule has been evaluated, and when
\* apply() is over each system with a non-empty kill set has been swept.
C6_DeferredSweep ==
    /\ NoEarlyRemoval
    /\ Finished =>
         \A i \in 1..Len(SweepOrder) :
            kill[SweepOrder[i]] \cap Ids(particles[SweepOrder[i]]) = {}

\* ================================================== the frame loop (app.py)
Events == {"none", "play", "escape", "resume", "exit", "npc_click", "clear", "quit"}

\* ParticleGame.handle_events on one event.  A click with the npc tool
\* spawns a ragdoll; "clear" is the clear button of the sidebar.
HandleEvent(g, ev) ==
    IF g.show_main_menu
    THEN CASE ev = "play" -> [g EXCEPT !.show_main_menu = FALSE]
           [] ev = "quit" -> [g EXCEPT !.upc = "stopped"]
           [] OTHER -> g
    ELSE IF g.show_pause_menu
    THEN CASE ev = "resume" -> [g EXCEPT !.show_pause_menu = FALSE]
           [] ev = "exit" -> [g EXCEPT !.show_pause_menu = FALSE, !.show_main_menu = TRUE]
           [] ev = "quit" -> [g EXCEPT !.upc = "stopped"]
           [] OTHER -> g
    ELSE CASE ev = "quit" -> [g EXCEPT !.upc = "stopped"]
           [] ev = "escape" -> [g EXCEPT !.show_pause_menu = TRUE]
           [] ev = "npc_click" -> [g EXCEPT !.npcs = IF @ < MaxNpcs THEN @ + 1 ELSE @]
           [] ev = "clear" -> [g EXCEPT !.npcs = 0]
           [] OTHER -> g

\* run(): the benchmark result is taken over once the thread has finished.
Handoff(g) == IF ~g.ready /\ g.bench_done THEN [g EXCEPT !.ready = TRUE] ELSE g

\* _bench_job, the body of the benchmark thread.
BenchJob ==
    /\ ~game.bench_done
    /\ game' = [game EXCEPT !.bench_done = TRUE]
    /\ UNCHANGED <<particles, grid, made, reactVars, fresh, cluster, more>>

\* run(): handle_events(), then the hand-off, up to the call of update().
RunEvents ==
    /\ game.upc = "events"
    /\ game.frame_index < MaxFrames
    /\ \E ev \in Events :
          LET g1 == HandleEvent(game, ev)
          IN game' = IF g1.upc = "stopped" THEN g1
                     ELSE [Handoff(g1) EXCEPT !.upc = "update"]
    /\ UNCHANGED <<particles, grid, made, reactVars, fresh, cluster, more>>

\* update() up to the first material system: the menu returns, the ready
\* test and the adaptive-quality governor.
UpdateEnter ==
    /\ game.upc = "update"
    /\ game' =
         IF game.show_main_menu \/ game.show_pause_menu
         THEN [game EXCEPT !.frame_index = @ + 1, !.upc = "draw", !.trace = << >>]
         ELSE IF ~game.ready
         THEN [game EXCEPT !.upc = "draw", !.trace = << >>]
         ELSE [game EXCEPT !.last_scale_apply =
                               IF game.frame_index - @ >= ScaleEvery
                               THEN game.frame_index ELSE @,
                           !.upc = "materials", !.trace = << >>]
    /\ UNCHANGED <<particles, grid, made, reactVars, fresh, cluster, more>>

\* update(): sand_system.update ... blocks_system.update.
StepMaterials ==
    /\ game.upc = "materials"
    /\ game' = [game EXCEPT !.trace = Append(@, "materials"), !.upc = "npc"]
    /\ UNCHANGED <<particles, grid, made, reactVars, fresh, cluster, more>>

\* update(): npc.update for every ragdoll (one that raises is removed),
\* then the particle coupling if a ragdoll is left.
StepNpcs ==
    /\ game.upc = "npc"
    /\ \E gone \in 0..game.npcs :
          game' = [game EXCEPT
                     !.npcs = @ - gone,
                     !.trace = @ \o (IF game.npcs > 0 THEN <<"npc">> ELSE << >>)
                                 \o (IF game.npcs - gone > 0 THEN <<"coupling">> ELSE << >>),
                     !.upc = "reactions"]
    /\ UNCHANGED <<particles, grid, made, reactVars, fresh, cluster, more>>

\* update(): reactions.apply(self), with the legacy fallback if it raises.
StepReactions ==
    /\ game.upc = "reactions"
    /\ \E raised \in BOOLEAN :
          game' = [game EXCEPT
                     !.trace = @ \o <<"reactions">>
                                 \o (IF raised THEN <<"fallback">> ELSE << >>),
                     !.upc = "hazards"]
    /\ UNCHANGED <<particles, grid, made, reactVars, fresh, cluster, more>>

\* update(): _handle_npc_hazards().
StepHazards ==
    /\ game.upc = "hazards"
    /\ game' = [game EXCEPT !.trace = Append(@, "hazards"), !.upc = "draw"]
    /\ UNCHANGED <<particles, grid, made, reactVars, fresh, cluster, more>>

\* run(): draw(), clock.tick(), _frame_index += 1.
FrameEnd ==
    /\ game.upc = "draw"
    /\ game' = [game EXCEPT !.frame_index = @ + 1, !.upc = "events"]
    /\ UNCHANGED <<particles, grid, made, reactVars, fresh, cluster, more>>

NextFrame ==
    \/ BenchJob
    \/ RunEvents
    \/ UpdateEnter
    \/ StepMaterials
    \/ StepNpcs
    \/ StepReactions
    \/ StepHazards
    \/ FrameEnd

SpecFrame == Init /\ [][NextFrame]_vars

\* Position of the first occurrence of step in the trace of the frame, 0 if
\* the step has not run.
FirstAt(step) ==
    IF \E i \in DOMAIN game.trace : game.trace[i] = step
    THEN CHOOSE i \in DOMAIN game.trace :
            /\ game.trace[i] = step
            /\ \A j \in 1..(i - 1) : game.trace[j] # step
    ELSE 0

\* The first half of C7 alone: the reactions of a frame run after the
\* material systems of that frame.
MaterialsBeforeReactions ==
    FirstAt("reactions") > 0 =>
        (FirstAt("materials") > 0 /\ FirstAt("materials") < FirstAt("reactions"))

\* C7: in every simulated frame the material systems run first, then the
\* reactions, and a ragdoll is advanced only after the reactions of the frame.
C7_FrameOrder ==
    /\ MaterialsBeforeReactions
    /\ FirstAt("npc") > 0 =>
         (FirstAt("reactions") > 0 /\ FirstAt("reactions") < FirstAt("npc"))

\* ============================================= the spatial grids at work
\* Positions the particles of the grid specification take.
GridPos == {<<2, 1>>, <<3, 1>>, <<11, 2>>}

\* Radii (in cells) the callers query with.
Radii == {1, 2}

\* Systems whose _handle_collisions returns before _rebuild_grid() on the
\* frames skip_mod leaves out.
SkipsCollisions(sys) == sys \in {"sand", "water", "toxic", "metal"}

\* Systems that define _get_neighbors.
HasGetNeighbors(sys) == sys \in {"sand", "water", "toxic", "metal", "dirt"}

\* <System>._get_neighbors; DirtSystem._get_neighbors returns [].
GetNeighbors(g, sys, x, y, radius) ==
    IF sys = "dirt" THEN << >> ELSE Nearby(g, sys, x, y, radius)

\* The particles ps moved to the positions f gives them.
Moved(ps, f) == [i \in 1..Len(ps) |-> [ps[i] EXCEPT !.x = f[i][1], !.y = f[i][2]]]

\* <System>.add_particle(x, y).
GridAdd ==
    \E sys \in Systems, pos \in GridPos :
       /\ Cardinality(UNION {Ids(particles[s]) : s \in Systems}) < MaxGrid
       /\ LET a == AddAll(sys, particles[sys], made[sys], <<[x |-> pos[1], y |-> pos[2]]>>)
          IN /\ particles' = [particles EXCEPT ![sys] = a.ps]
             /\ made' = [made EXCEPT ![sys] = a.n]
       /\ fresh' = "none"
       /\ UNCHANGED <<grid, reactVars, game, cluster, more>>

\* <System>.update(frame_index): the particles are integrated (positions
\* mid), _handle_collisions rebuilds the grid from them unless the frame is
\* skipped, and collision and boundary handling leave them at fin.
GridUpdate ==
    \E sys \in Systems :
       /\ particles[sys] # << >>
       /\ \E mid, fin \in [1..Len(particles[sys]) -> GridPos],
             skip \in (IF SkipsCollisions(sys) THEN BOOLEAN ELSE {FALSE}) :
             /\ grid' = [grid EXCEPT ![sys] =
                            IF skip THEN @ ELSE RebuildGrid(sys, Moved(particles[sys], mid))]
             /\ particles' = [particles EXCEPT ![sys] = Moved(@, fin)]
       /\ fresh' = "none"
       /\ UNCHANGED <<made, reactVars, game, cluster, more>>

\* <System>._rebuild_grid() called from outside update(), as reactions.apply
\* does.  fresh names the system whose _rebuild_grid() was the last step
\* taken, "none" if the last step was another one.
GridRebuild ==
    \E sys \in Systems :
       /\ grid' = [grid EXCEPT ![sys] = RebuildGrid(sys, particles[sys])]
       /\ fresh' = sys
       /\ UNCHANGED <<particles, made, reactVars, game, cluster, more>>

\* The attribute flag set on the particles of ps whose id is in ids.
Mark(ps, ids, flag) ==
    [i \in 1..Len(ps) |-> IF ps[i].id \in ids THEN [ps[i] EXCEPT !.flags = @ \cup {flag}]
                                              ELSE ps[i]]

\* The particles of sys the lookup get_<sys>(p.x, p.y, radius=1) returns
\* for some particle p of from.
Touched(g, sys, from) ==
    UNION {Ids(Nearby(g[sys], sys, from[i].x, from[i].y, 1)) : i \in 1..Len(from)}

\* reactions.apply(): the grids are rebuilt, then water wets the sand near
\* it, water turns the dirt near it to mud and toxic contaminates the dirt
\* near it.  No collection changes, so the grids hold the marked particles.
GridMark ==
    /\ LET g == [s \in Systems |-> RebuildGrid(s, particles[s])]
           wet == Touched(g, "sand", Limit(particles["water"], WetScan))
           mud == Touched(g, "dirt", Limit(particles["water"], MudScan))
           con == Touched(g, "dirt", Limit(particles["toxic"], MudScan))
           ps == [particles EXCEPT
                    !["sand"] = Mark(@, wet, "wet"),
                    !["dirt"] = Mark(Mark(@, mud, "is_mud"), con, "contaminated")]
       IN /\ particles' = ps
          /\ grid' = [s \in Systems |-> RebuildGrid(s, ps[s])]
    /\ fresh' = "none"
    /\ UNCHANGED <<made, reactVars, game, cluster, more>>

NextGrid == GridAdd \/ GridUpdate \/ GridRebuild \/ GridMark

SpecGrid == Init /\ [][NextGrid]_vars

\* How often the particle id is in bucket c of grid g.
InBucket(g, c, id) ==
    IF c \in DOMAIN g THEN Cardinality({i \in 1..Len(g[c]) : g[c][i].id = id}) ELSE 0

GridConsistent(sys) ==
    \A i \in 1..Len(particles[sys]) :
       LET p == particles[sys][i]
           c == <<p.x \div CellSize(sys), p.y \div CellSize(sys)>>
       IN /\ InBucket(grid[sys], c, p.id) = 1
          /\ \A d \in DOMAIN grid[sys] : d # c => InBucket(grid[sys], d, p.id) = 0

\* C8: right after _rebuild_grid() every particle of the system is exactly
\* once in the bucket of its own cell and in no other bucket.
C8_GridConsistent == fresh # "none" => GridConsistent(fresh)

\* C8 for every system except dirt.
GridConsistentButDirt == fresh \notin {"none", "dirt"} => GridConsistent(fresh)

Dist2(p, q) == (p.x - q.x) * (p.x - q.x) + (p.y - q.y) * (p.y - q.y)

\* The queries centred on p with the radius return q.
Finds(sys, p, q, radius) ==
    /\ q.id \in Ids(Nearby(grid[sys], sys, p.x, p.y, radius))
    /\ HasGetNeighbors(sys) => q.id \in Ids(GetNeighbors(grid[sys], sys, p.x, p.y, radius))

NoFalseNegative(sys) ==
    \A i, j \in 1..Len(particles[sys]), radius \in Radii :
       LET p == particles[sys][i]
           q == particles[sys][j]
           reach == radius * CellSize(sys)
       IN (i # j /\ Dist2(p, q) <= reach * reach) =>
             (Finds(sys, p, q, radius) /\ Finds(sys, q, p, radius))

\* C9: with a rebuilt grid, two particles of a system at most radius *
\* cell_size apart are found by the neighbour query centred on each other.
C9_NoFalseNegative == fresh # "none" => NoFalseNegative(fresh)

\* C9 for every system except dirt.
NoFalseNegativeButDirt == fresh \notin {"none", "dirt"} => NoFalseNegative(fresh)

\* q lies within one cell of p on the grid of system sys.
WithinOneCell(sys, p, q) ==
    LET c == GetCell(sys, p.x, p.y)
        d == GetCell(sys, q.x, q.y)
    IN c[1] - d[1] \in -1..1 /\ c[2] - d[2] \in -1..1

\* Every particle of sys within one cell of a particle of from carries flag.
AllMarked(ps, sys, from, flag) ==
    \A i \in 1..Len(ps[sys]), j \in 1..Len(ps[from]) :
       WithinOneCell(sys, ps[from][j], ps[sys][i]) => flag \in ps[sys][i].flags

\* C26: after the wetting rules of apply() every sand particle within one
\* cell of a water particle is wet, every dirt particle within one cell of
\* a water particle is mud and every dirt particle within one cell of a
\* toxic particle is contaminated, and no particle was removed or created.
C26_AllMarked ==
    [][GridMark =>
          /\ AllMarked(particles', "sand", "water", "wet")
          /\ AllMarked(particles', "dirt", "water", "is_mud")
          /\ AllMarked(particles', "dirt", "toxic", "contaminated")
          /\ \A s \in Systems : Ids(particles'[s]) = Ids(particles[s])]_vars

\* C26 for the sand alone.
SandWetted ==
    [][GridMark =>
          /\ AllMarked(particles', "sand", "water", "wet")
          /\ \A s \in Systems : Ids(particles'[s]) = Ids(particles[s])]_vars

\* ================================================= add_particle_cluster
\* Systems whose add_particle_cluster walks the integer offsets of the
\* square and keeps those in the disc.
LatticeSystems == {"sand", "water", "oil", "toxic", "dirt"}

\* Systems whose add_particle_cluster draws r * r random offsets.
RandomSystems == {"lava", "bluelava", "ruby", "gold", "diamond", "blood"}

ClusterSystems == LatticeSystems \cup RandomSystems \cup {"metal"}

\* Centres the brush is applied at; the camera can place one outside the world.
ClusterCentres == {<<0, 0>>, <<5, 1>>, <<11, 2>>, <<-1, 1>>}

\* r = max(1, int(brush_size)) in every system but sand, water and oil.
EffRadius(sys, r) ==
    IF sys \in {"sand", "water", "oil"} THEN r ELSE IF r < 1 THEN 1 ELSE r

\* The test dx*dx + dy*dy <= r*r of the cluster loops.
InDiscLoose(dx, dy, r) == dx * dx <= r * r /\ dy * dy <= r * r

InDisc(dx, dy, r) == dx * dx + dy * dy <= r * r

\* The offsets (dx, dy) for which the lattice loops call add_particle and
\* add_particle appends.
LatticeHits(cx, cy, r) ==
    {d \in ((-r)..r) \X ((-r)..r) :
        InDisc(d[1], d[2], r) /\ InWorld(cx + d[1], cy + d[2])}

\* MetalSystem.add_block: every cell of the clipped square.
BlockCells(cx, cy, half_size) ==
    LET s  == IF half_size < 1 THEN 1 ELSE half_size
        x0 == IF cx - s > 0 THEN cx - s ELSE 0
        y0 == IF cy - s > 0 THEN cy - s ELSE 0
        x1 == IF cx + s < WorldW - 1 THEN cx + s ELSE WorldW - 1
        y1 == IF cy + s < WorldH - 1 THEN cy + s ELSE WorldH - 1
    IN {c \in (x0..x1) \X (y0..y1) : InWorld(c[1], c[2])}

\* Values random.uniform(-r, r) can return, doubled, as pairs (ox, oy): a
\* fractional offset inside the disc, one half a unit inside its rim, one
\* outside the disc and one inside with negative components.
Offsets2(r) == {<<1, 1>>, <<2 * r - 1, 0>>, <<-2 * r, -1>>, <<-1, -1>>}

\* add_particle on a doubled position.
InWorld2(x2, y2) == 0 <= x2 /\ x2 < 2 * WorldW /\ 0 <= y2 /\ y2 < 2 * WorldH

\* add_particle_cluster(cx, cy, brush_size) of a lattice system or of the
\* metal system, and the entry of the sampling loop of a random system.
ClusterCall ==
    /\ cluster.phase = "idle"
    /\ \E sys \in ClusterSystems, c \in ClusterCentres, brush \in 1..MaxR :
          LET r == EffRadius(sys, brush)
              base == [InitCluster EXCEPT !.sys = sys, !.cx = c[1], !.cy = c[2], !.r = brush]
          IN cluster' =
               IF sys \in LatticeSystems
               THEN LET hits == LatticeHits(c[1], c[2], r)
                    IN [base EXCEPT !.phase = "done", !.n = Cardinality(hits),
                          !.at = {<<2 * (c[1] + d[1]), 2 * (c[2] + d[2])>> : d \in hits}]
               ELSE IF sys = "metal"
               THEN LET cells == BlockCells(c[1], c[2], brush)
                    IN [base EXCEPT !.phase = "done", !.n = Cardinality(cells),
                          !.at = {<<2 * d[1], 2 * d[2]>> : d \in cells}]
               ELSE [base EXCEPT !.phase = "sampling", !.left = r * r]
    /\ UNCHANGED <<particles, grid, made, reactVars, fresh, game, more>>

\* One pass of the loop 'for _ in range(r * r)' of a random system.
ClusterSample ==
    /\ cluster.phase = "sampling"
    /\ cluster.left > 0
    /\ \E o \in Offsets2(EffRadius(cluster.sys, cluster.r)) :
          LET r  == EffRadius(cluster.sys, cluster.r)
              x2 == 2 * cluster.cx + o[1]
              y2 == 2 * cluster.cy + o[2]
              hit == InDisc(o[1], o[2], 2 * r) /\ InWorld2(x2, y2)
          IN cluster' = [cluster EXCEPT
                           !.left = @ - 1,
                           !.phase = IF cluster.left = 1 THEN "done" ELSE "sampling",
                           !.n = IF hit THEN @ + 1 ELSE @,
                           !.at = IF hit THEN @ \cup {<<x2, y2>>} ELSE @]
    /\ UNCHANGED <<particles, grid, made, reactVars, fresh, game, more>>

\* <System>.clear().
ClusterClear ==
    /\ cluster.phase = "done"
    /\ cluster' = InitCluster
    /\ UNCHANGED <<particles, grid, made, reactVars, fresh, game, more>>

NextCluster == ClusterCall \/ ClusterSample \/ ClusterClear

SpecCluster == Init /\ [][NextCluster]_vars

\* Number of integer points of the disc of radius r around (cx, cy) that lie
\* in the world.
LatticePoints(cx, cy, r) ==
    Cardinality({q \in (0..(WorldW - 1)) \X (0..(WorldH - 1)) :
                   (q[1] - cx) * (q[1] - cx) + (q[2] - cy) * (q[2] - cy) <= r * r})

\* Every created position lies in the disc of radius r around the centre
\* and in the world (positions are doubled).
CreatedInDisc ==
    \A q \in cluster.at :
       /\ (q[1] - 2 * cluster.cx) * (q[1] - 2 * cluster.cx)
            + (q[2] - 2 * cluster.cy) * (q[2] - 2 * cluster.cy) <= 4 * cluster.r * cluster.r
       /\ 0 <= q[1] /\ q[1] < 2 * WorldW /\ 0 <= q[2] /\ q[2] < 2 * WorldH

\* Every created position lies in the square of half side r around the
\* centre and in the world.
CreatedInSquare ==
    \A q \in cluster.at :
       /\ q[1] - 2 * cluster.cx \in (-2 * cluster.r)..(2 * cluster.r)
       /\ q[2] - 2 * cluster.cy \in (-2 * cluster.r)..(2 * cluster.r)
       /\ 0 <= q[1] /\ q[1] < 2 * WorldW /\ 0 <= q[2] /\ q[2] < 2 * WorldH

\* C10 as stated: for every system the created particles lie in the disc
\* and in the world, and there are at most as many as the disc has lattice
\* points in the world.
C10_ClusterInDisc ==
    cluster.phase = "done" =>
        /\ CreatedInDisc
        /\ cluster.n <= LatticePoints(cluster.cx, cluster.cy, cluster.r)

\* The count bound of C10 for the random-offset systems alone.
RandomCountWithinLattice ==
    (cluster.phase = "done" /\ cluster.sys \in RandomSystems) =>
        cluster.n <= LatticePoints(cluster.cx, cluster.cy, cluster.r)

\* C10 amended: for every system but metal the created particles lie in the
\* disc and in the world; a lattice system creates at most as many as the
\* disc has lattice points in the world, a random-offset system at most
\* r * r; metal fills the square of half side r clipped to the world.
C10_ClusterAmended ==
    cluster.phase = "done" =>
        /\ cluster.sys # "metal" => CreatedInDisc
        /\ cluster.sys \in LatticeSystems =>
              cluster.n <= LatticePoints(cluster.cx, cluster.cy, cluster.r)
        /\ cluster.sys \in RandomSystems => cluster.n <= cluster.r * cluster.r
        /\ cluster.sys = "metal" =>
              /\ CreatedInSquare
              /\ cluster.n <= (2 * cluster.r + 1) * (2 * cluster.r + 1)

\* A lattice cluster of radius 2 has finished at a corner of the world,
\* where the world clips the disc to 6 points.
C10_Witness ==
    /\ cluster.phase = "done"
    /\ cluster.sys \in LatticeSystems
    /\ cluster.r = 2
    /\ cluster.n = 6

\* ============================================ the brush and the pointer
RECURSIVE SumOver(_, _)
SumOver(f, S) ==
    IF S = {} THEN 0
    ELSE LET m == CHOOSE m \in S : TRUE IN f[m] + SumOver(f, S \ {m})

\* The systems _draw_on_canvas adds up for the capacity test (ruby_system
\* is not among them).
Counted == {"sand", "water", "milk", "oil", "lava", "bluelava", "toxic",
            "metal", "blood", "dirt"}

\* handle_events, MOUSEBUTTONDOWN with button 1 on the canvas.  With the npc
\* tool the nearest ragdoll within reach is grabbed (hit), otherwise a new
\* one is spawned and grabbed.
Press(g, hit) ==
    IF g.current_tool = "npc"
    THEN IF hit \in 1..g.npcs
         THEN [g EXCEPT !.active_npc = hit, !.npc_drag_index = 1,
                        !.user_dragging = @ \cup {hit}, !.is_drawing = TRUE]
         ELSE IF g.npcs < MaxNpcs
         THEN [g EXCEPT !.npcs = @ + 1, !.active_npc = g.npcs + 1,
                        !.npc_drag_index = 1,
                        !.user_dragging = @ \cup {g.npcs + 1}, !.is_drawing = TRUE]
         ELSE g
    ELSE [g EXCEPT !.is_drawing = TRUE]

\* handle_events, MOUSEBUTTONUP with button 1.
Release(g) ==
    IF g.current_tool = "npc"
    THEN [g EXCEPT !.is_drawing = FALSE, !.npc_drag_index = 0,
                   !.user_dragging = @ \ {g.active_npc}, !.active_npc = 0]
    ELSE [g EXCEPT !.is_drawing = FALSE]

\* _draw_on_canvas: over_ui is the pointer being on an overlay, k the
\* number of particles the tool's add_particle_cluster (add_particle,
\* add_spray) appends.
DrawOnCanvas(g, over_ui, k) ==
    IF ~g.is_drawing \/ over_ui \/ g.current_tool = "blocks" THEN g
    ELSE LET total == SumOver(g.count, Counted)
             req == [tool |-> g.current_tool, before |-> SumOver(g.count, Materials),
                     counted |-> total, added |-> 0, moved |-> FALSE]
         IN IF total >= g.max_particles /\ g.current_tool # "npc"
            THEN [g EXCEPT !.last = req]
            ELSE IF g.current_tool = "npc"
            THEN [g EXCEPT !.last = [req EXCEPT !.moved =
                                        g.active_npc # 0 /\ g.npc_drag_index # 0]]
            ELSE [g EXCEPT !.count[g.current_tool] = @ + k,
                           !.last = [req EXCEPT !.added = k]]

\* Only the main menu stops the game.
InMainMenu(g) == g.show_main_menu

\* The main menu or the pause menu is open: handle_events hands every
\* event to the menu and update() returns before _draw_on_canvas.
InMenu(g) == g.show_main_menu \/ g.show_pause_menu

\* A click on a tile of the spawn menu or a sidebar button.
CanvasSelect ==
    /\ ~InMenu(game)
    /\ \E t \in Tools : game' = [game EXCEPT !.current_tool = t, !.up = FALSE]
    /\ UNCHANGED <<particles, grid, made, reactVars, fresh, cluster, more>>

CanvasPress ==
    /\ ~InMenu(game)
    /\ \E hit \in 0..MaxNpcs : game' = [Press(game, hit) EXCEPT !.up = FALSE]
    /\ UNCHANGED <<particles, grid, made, reactVars, fresh, cluster, more>>

\* A MOUSEBUTTONUP with button 1 is delivered; up records it.
CanvasRelease ==
    /\ game' = IF InMenu(game) THEN [game EXCEPT !.up = TRUE]
               ELSE [Release(game) EXCEPT !.up = TRUE]
    /\ UNCHANGED <<particles, grid, made, reactVars, fresh, cluster, more>>

\* Play in the main menu, ESC on the canvas, resume or exit in the pause
\* menu.
CanvasMenu ==
    /\ \E ev \in {"play", "escape", "resume", "exit"} :
          /\ HandleEvent(game, ev) # game
          /\ game' = [HandleEvent(game, ev) EXCEPT !.up = FALSE]
    /\ UNCHANGED <<particles, grid, made, reactVars, fresh, cluster, more>>

\* The systems admin.clear_everything names (blocks_system is not counted
\* here).
ClearedByAdmin == {"sand", "water", "oil", "lava", "toxic", "metal", "blood"}

\* admin.clear_everything(game): _try_clear_system on each named system,
\* then game.npc (an attribute the game does not have) and npc_drag_index.
ClearEverything(g) ==
    [g EXCEPT !.count = [m \in Materials |-> IF m \in ClearedByAdmin THEN 0 ELSE g.count[m]],
              !.npc_drag_index = 0]

\* A click on the clear-everything button of the admin panel.
CanvasAdminClear ==
    /\ ~InMenu(game)
    /\ game' = [ClearEverything(game) EXCEPT !.up = FALSE]
    /\ UNCHANGED <<particles, grid, made, reactVars, fresh, cluster, more>>

\* run(): the hand-off of the benchmark result, then update(): it returns
\* at once while a menu is open (last records that), otherwise it calls
\* _draw_on_canvas, which stands before the ready test.
CanvasDraw ==
    /\ SumOver(game.count, Materials) <= MaxParticles
    /\ \E over_ui \in BOOLEAN, k \in 0..1 :
          LET g == Handoff(game)
          IN game' = IF InMenu(g)
                     THEN [g EXCEPT !.last = [NoRequest EXCEPT !.tool = "menu"],
                                    !.up = FALSE]
                     ELSE [DrawOnCanvas(g, over_ui, k) EXCEPT !.up = FALSE]
    /\ UNCHANGED <<particles, grid, made, reactVars, fresh, cluster, more>>

NextCanvas ==
    \/ CanvasSelect
    \/ CanvasPress
    \/ CanvasRelease
    \/ CanvasMenu
    \/ CanvasAdminClear
    \/ CanvasDraw

SpecCanvas == Init /\ [][NextCanvas]_vars

\* The start of the program: the benchmark thread runs beside the main
\* loop, the tool is the one selected at construction.
NextStartup ==
    \/ BenchJob
    \/ CanvasPress
    \/ CanvasRelease
    \/ CanvasMenu
    \/ CanvasDraw

SpecStartup == Init /\ [][NextStartup]_vars

\* C23: until the main loop has taken over the result of the benchmark
\* thread (ready), no material system holds a particle and no ragdoll
\* exists.  Checked under SpecStartup.
C23_NothingBeforeReady ==
    ~game.ready => (SumOver(game.count, Materials) = 0 /\ game.npcs = 0)

\* C24: while the main menu or the pause menu is shown no step of the main
\* loop (event or update) adds or removes a particle of a material system,
\* creates, removes, grabs or releases a ragdoll, or changes the particle
\* collections of the systems and the ragdoll's state.
C24_MenuFreezes ==
    [][(game.show_main_menu \/ game.show_pause_menu) =>
          /\ game'.count = game.count
          /\ game'.npcs = game.npcs
          /\ game'.user_dragging = game.user_dragging
          /\ game'.active_npc = game.active_npc
          /\ game'.npc_drag_index = game.npc_drag_index
          /\ UNCHANGED <<particles, grid, sim, metal, npc>>]_vars

C24_Witness ==
    /\ game.show_pause_menu /\ game.last.tool = "menu" /\ game.is_drawing
    /\ SumOver(game.count, Materials) > 0 /\ game.npcs > 0

\* C25: when admin.clear_everything has returned every material system is
\* empty, no ragdoll is left and no drag is active.
C25_SandboxEmpty ==
    [][CanvasAdminClear =>
          /\ \A m \in Materials : game'.count[m] = 0
          /\ game'.npcs = 0
          /\ game'.active_npc = 0 /\ game'.npc_drag_index = 0]_vars

\* C11: a paint request made while all material systems together hold
\* max_particles particles or more adds no particle, and a request with the
\* npc tool still moves the ragdoll particle that is held.
C11_CapRejects ==
    /\ (game.last.tool \in Materials /\ game.last.before >= game.max_particles)
          => game.last.added = 0
    /\ (game.last.tool = "npc" /\ game.active_npc # 0 /\ game.npc_drag_index # 0)
          => game.last.moved

\* C11 with the total _draw_on_canvas computes in place of the particles
\* of all systems.
CapRejectsCounted ==
    (game.last.tool \in Materials /\ game.last.counted >= game.max_particles)
       => game.last.added = 0

\* ======================================== update() of one material system
AllSystems == Materials \cup {"gold", "diamond"}

\* Systems of which update() ends with the cull of far-out particles.
Culls(sys) == sys \in {"sand", "water", "toxic", "metal", "dirt", "blood"}

\* sand, water, toxic, metal, oil: integrate, resolve collisions, then
\* _handle_boundaries clamps all four sides.
BoxSystems == {"sand", "water", "toxic", "metal", "oil"}

\* lava, blue lava, blood: the four sides are clamped while integrating;
\* their collisions change velocities only.
InlineSystems == {"lava", "bluelava", "blood"}

\* ruby, gold, diamond: only the floor is clamped while integrating, the
\* collision pass moves positions afterwards, nothing is culled.
FloorSystems == {"ruby", "gold", "diamond"}

\* Displacement of one integration step on one axis (the velocity), and the
\* displacement a collision with neighbours of the system applies.
Velocities == {-6, -1, 0, 1, 6}
Pushes == {-1, 0, 1}

\* _handle_boundaries left out: the position stays as integrated.
BoxNoClamp(x, y) == <<x, y>>

\* _handle_boundaries of the box systems.
BoxClamp(x, y) ==
    LET y1 == IF y + 1 >= WorldH THEN WorldH - 1 ELSE y
        y2 == IF y1 < 0 THEN 0 ELSE y1
        x1 == IF x < 0 THEN 0 ELSE x
        x2 == IF x1 >= WorldW THEN WorldW - 1 ELSE x1
    IN <<x2, y2>>

\* The boundary tests inside the integration loop of lava, blue lava, blood.
InlineClamp(x, y) ==
    <<IF x < 0 THEN 0 ELSE IF x > WorldW - 1 THEN WorldW - 1 ELSE x,
      IF y < 0 THEN 0 ELSE IF y > WorldH - 1 THEN WorldH - 1 ELSE y>>

\* The floor clamp of ruby, gold and diamond.
FloorClamp(x, y) == <<x, IF y >= WorldH - 1 THEN WorldH - 1 ELSE y>>

\* The cull at the end of update().
InMargin(x, y) ==
    /\ -CullMargin <= x /\ x < WorldW + CullMargin
    /\ -CullMargin <= y /\ y < WorldH + CullMargin

\* Systems with set_obstacle_query; update() calls the installed predicate
\* for the cell a particle has reached.
HasObstacleQuery(sys) == sys \notin {"sand", "metal"}

\* The per-particle loop of update(): v is the step, solid the answer of
\* the obstacle predicate at the new position (the step is taken back).
LoopStep(sys, x, y, v, solid) ==
    LET m == IF solid THEN <<x, y>> ELSE <<x + v[1], y + v[2]>>
    IN CASE sys \in BoxSystems -> m
         [] sys \in InlineSystems -> InlineClamp(m[1], m[2])
         [] OTHER -> FloorClamp(m[1], m[2])

\* Position after a whole update(): the loop, then the collision pass with
\* displacement c, then _handle_boundaries where the system has it.
Stepped(sys, x, y, v, solid, c) ==
    LET l == LoopStep(sys, x, y, v, solid)
    IN CASE sys \in BoxSystems -> BoxClamp(l[1] + c[1], l[2] + c[2])
         [] sys \in InlineSystems -> l
         [] OTHER -> <<l[1] + c[1], l[2] + c[2]>>

\* The fractional parts of x followed: 0 and 1/2 for the systems whose
\* boundary handling compares the float x with the width, 0 for the others.
Halves(sys) == IF sys \in {"sand", "water", "toxic", "metal"} THEN BOOLEAN ELSE {FALSE}

\* The x a particle has before any boundary test of update() is applied.
RawX(sys, x, v, solid, c) ==
    (IF solid THEN x ELSE x + v[1]) + (IF sys \in InlineSystems THEN 0 ELSE c[1])

\* <System>.add_particle(x, y): the particle is taken only inside the
\* world; n is the number of particles the system holds, this one first.
\* Positions are floats: the particle is at x + 1/2 when half is set.
SimAdd ==
    /\ sim.phase = "idle"
    /\ \E sys \in AllSystems, x \in {0, 5, WorldW - 1, WorldW}, y \in {0, WorldH - 1, -1},
          n \in 1..MaxSim :
       \E h \in Halves(sys) :
          sim' = [InitSim EXCEPT !.sys = sys, !.x = x, !.y = y, !.n = n, !.half = h,
                                 !.held = InWorld(x, y), !.phase = "added"]
    /\ UNCHANGED <<particles, grid, made, reactVars, fresh, game, cluster, metal, npc, gov>>

\* update() of a system that integrates velocities, the obstacle predicate
\* returning normally for every particle.
SimUpdate ==
    /\ sim.phase \in {"added", "updated"}
    /\ sim.held
    /\ sim.sys \notin {"dirt", "milk"}
    /\ sim.x \in (-SimReach)..(WorldW + SimReach)
    /\ sim.y \in (-SimReach)..(WorldH + SimReach)
    /\ \E v \in Velocities \X {-1, 0, 1, 2}, c \in Pushes \X Pushes,
          solid \in IF HasObstacleQuery(sim.sys) THEN BOOLEAN ELSE {FALSE},
          h \in Halves(sim.sys) :
          LET q == Stepped(sim.sys, sim.x, sim.y, v, solid, c)
          IN sim' = [sim EXCEPT !.x = q[1], !.y = q[2], !.phase = "updated",
                                !.half = h /\ q[1] = RawX(sim.sys, sim.x, v, solid, c),
                                !.held = ~Culls(sim.sys) \/ InMargin(q[1], q[2]),
                                !.threw = FALSE, !.raised = FALSE, !.advanced = sim.n]
    /\ UNCHANGED <<particles, grid, made, reactVars, fresh, game, cluster, metal, npc, gov>>

\* update() of dirt and milk: the particle moves by whole cells into a
\* free cell of the world (down, diagonally down, sideways or up) or stays.
SimCellUpdate ==
    /\ sim.phase \in {"added", "updated"}
    /\ sim.held
    /\ sim.sys \in {"dirt", "milk"}
    /\ \E d \in {-1, 0, 1} \X {-1, 0, 1, 2} :
          LET b == IF sim.sys = "dirt" THEN BoxClamp(sim.x, sim.y) ELSE <<sim.x, sim.y>>
              q == IF InWorld(b[1] + d[1], b[2] + d[2])
                   THEN <<b[1] + d[1], b[2] + d[2]>> ELSE b
          IN sim' = [sim EXCEPT !.x = q[1], !.y = q[2], !.phase = "updated",
                                !.held = ~Culls(sim.sys) \/ InMargin(q[1], q[2]),
                                !.threw = FALSE, !.raised = FALSE, !.advanced = sim.n]
    /\ UNCHANGED <<particles, grid, made, reactVars, fresh, game, cluster, metal, npc, gov>>

\* update() in which the obstacle predicate raises at the k-th particle.
\* No system wraps the call: the exception leaves update() at once. The
\* particles before the k-th have gone through the loop, the k-th has been
\* moved and not taken back, the later ones, the collision pass, the
\* boundaries and the cull are not reached. (Oil calls the predicate after
\* it has integrated and collided all particles; dirt and milk call it
\* before they move the particle.) run() calls update() bare, so no
\* further update follows an aborted one.
SimUpdateRaises ==
    /\ sim.phase \in {"added", "updated"}
    /\ sim.held
    /\ HasObstacleQuery(sim.sys)
    /\ sim.x \in (-SimReach)..(WorldW + SimReach)
    /\ sim.y \in (-SimReach)..(WorldH + SimReach)
    /\ \E k \in 1..sim.n, v \in Velocities \X {-1, 0, 1, 2}, solid \in BOOLEAN,
          c \in Pushes \X Pushes :
          LET q == CASE sim.sys \in {"dirt", "milk"} -> <<sim.x, sim.y>>
                     [] sim.sys = "oil" ->
                           <<sim.x + v[1] + c[1], sim.y + v[2] + c[2]>>
                     [] k = 1 -> <<sim.x + v[1], sim.y + v[2]>>
                     [] OTHER -> LoopStep(sim.sys, sim.x, sim.y, v, solid)
          IN sim' = [sim EXCEPT !.x = q[1], !.y = q[2], !.phase = "aborted",
                                !.threw = TRUE, !.raised = TRUE,
                                !.advanced = IF sim.sys = "oil" THEN sim.n ELSE k - 1]
    /\ UNCHANGED <<particles, grid, made, reactVars, fresh, game, cluster, metal, npc, gov>>

\* <System>.clear().
SimClear ==
    /\ sim.phase # "idle"
    /\ sim' = InitSim
    /\ UNCHANGED <<particles, grid, made, reactVars, fresh, game, cluster, metal, npc, gov>>

NextSim == SimAdd \/ SimUpdate \/ SimCellUpdate \/ SimUpdateRaises \/ SimClear

SpecSim == Init /\ [][NextSim]_vars

\* C12: after update() a particle the system still holds lies in the world
\* extended by the cull margin.
C12_InMargin ==
    (sim.phase = "updated" /\ sim.held) =>
        /\ -10 <= sim.x /\ sim.x < WorldW + 10
        /\ -10 <= sim.y /\ sim.y < WorldH + 10

\* C12 for every system except ruby, gold and diamond.
InMarginButFloorSystems ==
    (sim.phase = "updated" /\ sim.held /\ sim.sys \notin FloorSystems) =>
        /\ -10 <= sim.x /\ sim.x < WorldW + 10
        /\ -10 <= sim.y /\ sim.y < WorldH + 10

\* C30 as stated: update() of sand, water, toxic and metal keeps every
\* particle, _handle_boundaries having put it into [0, width - 1] x
\* [0, height - 1].
C30_ClampedToLastCell ==
    (sim.phase = "updated" /\ sim.sys \in {"sand", "water", "toxic", "metal"}) =>
        /\ sim.held
        /\ 0 <= sim.x /\ (sim.x < WorldW - 1 \/ (sim.x = WorldW - 1 /\ ~sim.half))
        /\ 0 <= sim.y /\ sim.y <= WorldH - 1

\* C30: update() of sand, water, toxic and metal keeps every particle:
\* _handle_boundaries has put it into [0, width) x [0, height - 1] before
\* the cull is evaluated.
C30_CountKept ==
    (sim.phase = "updated" /\ sim.sys \in {"sand", "water", "toxic", "metal"}) =>
        /\ sim.held
        /\ 0 <= sim.x /\ sim.x < WorldW
        /\ 0 <= sim.y /\ sim.y <= WorldH - 1

C30_Witness ==
    /\ sim.phase = "updated" /\ sim.sys = "water" /\ sim.held
    /\ sim.x = WorldW - 1 /\ sim.half /\ sim.y = WorldH - 1

\* C13: an update() in which the obstacle predicate raised returns
\* normally and has advanced every particle of the system.
C13_FailOpen ==
    sim.threw => (~sim.raised /\ sim.advanced = sim.n)

\* ===================================================== MetalSystem.is_solid
\* MetalSystem.is_solid(x, y).
IsSolid(x, y) == <<x, y>> \in metal.cells

\* MetalSystem._rebuild_occupancy: the in-world integer positions.
RebuildOccupancy(ps) == {c \in ps : InWorld(c[1], c[2])}

\* The square add_block stamps: half size max(1, s), clipped to the world.
BlockSquare(cx, cy, s) ==
    LET h == IF s < 1 THEN 1 ELSE s
    IN {c \in (0..(WorldW - 1)) \X (0..(WorldH - 1)) :
           /\ cx - h <= c[1] /\ c[1] <= cx + h
           /\ cy - h <= c[2] /\ c[2] <= cy + h}

\* MetalSystem.add_block / add_particle_cluster: stamp, then rebuild the
\* occupancy.
MetalAddBlock ==
    /\ metal.ps = {}
    /\ \E cx \in {0, 5, WorldW - 1}, cy \in {0, WorldH - 1, WorldH + 1} :
          LET ps == metal.ps \cup BlockSquare(cx, cy, 1)
          IN metal' = [ps |-> ps, cells |-> RebuildOccupancy(ps), last |-> "add_block"]
    /\ UNCHANGED <<particles, grid, made, reactVars, fresh, game, cluster, sim, npc, gov>>

\* MetalSystem.add_particle(x, y), as reactions.apply calls it for a
\* converted particle: appended when inside the world, _cells untouched.
MetalAddParticle ==
    /\ Cardinality(metal.ps) < MaxMetal
    /\ \E x \in {0, 3, WorldW}, y \in {0, WorldH - 1} :
          metal' = [metal EXCEPT !.ps = IF InWorld(x, y) THEN @ \cup {<<x, y>>} ELSE @,
                                 !.last = "add_particle"]
    /\ UNCHANGED <<particles, grid, made, reactVars, fresh, game, cluster, sim, npc, gov>>

\* MetalSystem.update: the particles move (here all by the same step d),
\* _handle_boundaries clamps them, the occupancy is rebuilt, then the cull.
MetalUpdate ==
    /\ metal.ps # {}
    /\ \E d \in {<<0, 0>>, <<0, 1>>, <<1, 1>>, <<-1, 0>>} :
          LET ps == {BoxClamp(c[1] + d[1], c[2] + d[2]) : c \in metal.ps}
          IN metal' = [ps |-> {c \in ps : InMargin(c[1], c[2])},
                       cells |-> RebuildOccupancy(ps), last |-> "update"]
    /\ UNCHANGED <<particles, grid, made, reactVars, fresh, game, cluster, sim, npc, gov>>

\* MetalSystem.clear.
MetalClear ==
    /\ metal.last # "init"
    /\ metal' = [ps |-> {}, cells |-> {}, last |-> "clear"]
    /\ UNCHANGED <<particles, grid, made, reactVars, fresh, game, cluster, sim, npc, gov>>

NextMetal == MetalAddBlock \/ MetalAddParticle \/ MetalUpdate \/ MetalClear

SpecMetal == Init /\ [][NextMetal]_vars

\* C14: is_solid(x, y) is true exactly when a metal particle has the integer
\* position (x, y) inside the world.
C14_SolidIsOccupied ==
    \A x \in 0..(WorldW - 1), y \in 0..(WorldH - 1) :
        IsSolid(x, y) <=> <<x, y>> \in metal.ps

\* C14 for the states in which no add_particle came after the last rebuild
\* of the occupancy.
SolidIsOccupiedAfterRebuild ==
    metal.last \in {"init", "add_block", "update", "clear"} =>
        \A x \in 0..(WorldW - 1), y \in 0..(WorldH - 1) :
            IsSolid(x, y) <=> <<x, y>> \in metal.ps

\* ======================================================= recommend_settings
\* The clamp of the tier.
NoClampTier(t) == t

ClampTier(t) == IF t < 0 THEN 0 ELSE IF t > 4 THEN 4 ELSE t

\* The tier recommend_settings derives (fps >= target_fps * 0.95 and so on,
\* in hundredths).
Tier(total, fps, target) ==
    LET base == IF 100 * fps >= 95 * target THEN 0
                ELSE IF 100 * fps >= 80 * target THEN 1
                ELSE IF 100 * fps >= 65 * target THEN 2
                ELSE 3
        load == IF total > 100000 THEN 2 ELSE IF total > 60000 THEN 1 ELSE 0
    IN ClampTier(base + load)

\* The settings of one family for a tier; mn0 is max_neighbors of tier 0.
TierSettings(tier, gpu, mn0) ==
    LET t == CASE tier = 1 -> [neighbor_radius |-> 2, max_neighbors |-> 8, skip_mod |-> 2]
               [] tier = 2 -> [neighbor_radius |-> 2, max_neighbors |-> 6, skip_mod |-> 3]
               [] tier >= 3 -> [neighbor_radius |-> 1, max_neighbors |-> 4, skip_mod |-> 4]
               [] OTHER -> [neighbor_radius |-> 2, max_neighbors |-> mn0, skip_mod |-> 1]
    IN IF ~gpu /\ tier >= 1 /\ t.skip_mod < 2 THEN [t EXCEPT !.skip_mod = 2] ELSE t

\* recommend_settings(total_particles, fps, target_fps, gpu), with the tier.
RecommendSettings(total, fps, target, gpu) ==
    LET tier == Tier(total, fps, target)
    IN [set |-> TRUE, total |-> total, fps |-> fps, target |-> target, gpu |-> gpu,
        tier |-> tier,
        sand |-> TierSettings(tier, gpu, 12),
        water |-> TierSettings(tier, gpu, 10)]

TotalInputs == {60000, 60001, 100001}
FpsInputs == {19, 20, 38, 39, 47, 48, 56, 57}
TargetInputs == {30, 60}

\* A call of recommend_settings.
GovRecommend ==
    /\ \E total \in TotalInputs, fps \in FpsInputs, target \in TargetInputs,
          gpu \in BOOLEAN :
          gov' = [gov EXCEPT !.prev = gov.cur,
                             !.cur = RecommendSettings(total, fps, target, gpu)]
    /\ UNCHANGED <<particles, grid, made, reactVars, fresh, game, cluster, sim, metal, npc>>

NextScaling == GovRecommend

SpecScaling == Init /\ [][NextScaling]_vars

\* a is at least as strict as b.
AtLeastAsStrict(a, b) ==
    /\ a.neighbor_radius <= b.neighbor_radius
    /\ a.max_neighbors <= b.max_neighbors
    /\ a.skip_mod >= b.skip_mod

\* C15: the tier is within 0..4; for one backend a call with a higher (or
\* the same) tier is at least as strict as one with a lower tier; equal
\* inputs give equal results.
C15_TierMonotone ==
    /\ gov.cur.set => gov.cur.tier \in 0..4
    /\ (gov.cur.set /\ gov.prev.set /\ gov.cur.gpu = gov.prev.gpu
            /\ gov.cur.tier >= gov.prev.tier) =>
          /\ AtLeastAsStrict(gov.cur.sand, gov.prev.sand)
          /\ AtLeastAsStrict(gov.cur.water, gov.prev.water)
    /\ (gov.cur.set /\ gov.prev.set /\ gov.cur.gpu = gov.prev.gpu
            /\ gov.cur.total = gov.prev.total /\ gov.cur.fps = gov.prev.fps
            /\ gov.cur.target = gov.prev.target) =>
          (gov.cur.sand = gov.prev.sand /\ gov.cur.water = gov.prev.water)

\* A call with more than 100000 particles below 65% of the target rate
\* (the tier is cut to 4) after a call that gave tier 0 on the same backend.
C15_Witness ==
    /\ gov.cur.set /\ gov.prev.set /\ gov.cur.gpu = gov.prev.gpu
    /\ gov.cur.total > 100000 /\ 100 * gov.cur.fps < 65 * gov.cur.target
    /\ gov.cur.tier = 4 /\ gov.prev.tier = 0
    /\ gov.cur.sand.skip_mod > gov.prev.sand.skip_mod

\* ============================================== the governor in update()
\* The three settings of a family of a result.
Triple(r) == [neighbor_radius |-> r.neighbor_radius,
              max_neighbors |-> r.max_neighbors, skip_mod |-> r.skip_mod]

\* The writes of update(): settings['sand'] into the sand system,
\* settings['water'] into water, lava, toxic and oil.
Written(tuning, r) ==
    [m \in TunedSystems |->
        IF m = "sand" THEN Triple(r.sand)
        ELSE IF m \in {"water", "lava", "toxic", "oil"} THEN Triple(r.water)
        ELSE tuning[m]]

\* One iteration of run() with the simulation running: update() evaluates
\* the governor when 15 frame indices have passed since the last time, then
\* run() counts the frame.
GovSimFrame ==
    /\ gov.iter < MaxGovFrames
    /\ \E total \in {60000, 100001}, fps \in {19, 57}, gpu \in BOOLEAN :
          IF gov.frame_index - gov.last_scale_apply >= ScaleEvery
          THEN gov' = [gov EXCEPT
                 !.tuning = Written(@, RecommendSettings(total, fps, 60, gpu)),
                 !.last_scale_apply = gov.frame_index,
                 !.eval_iter = gov.iter, !.eval_index = gov.frame_index,
                 !.gap_iter = IF gov.eval_iter >= 0 THEN gov.iter - gov.eval_iter ELSE -1,
                 !.gap_index = IF gov.eval_iter >= 0
                               THEN gov.frame_index - gov.eval_index ELSE -1,
                 !.applied = TRUE,
                 !.frame_index = @ + 1, !.iter = @ + 1]
          ELSE gov' = [gov EXCEPT !.applied = FALSE,
                                  !.frame_index = @ + 1, !.iter = @ + 1]
    /\ UNCHANGED <<particles, grid, made, reactVars, fresh, game, cluster, sim, metal, npc>>

\* One iteration of run() with the main menu or the pause menu open:
\* update() counts the frame and returns, run() counts it again.
GovMenuFrame ==
    /\ gov.iter < MaxGovFrames
    /\ gov' = [gov EXCEPT !.applied = FALSE, !.frame_index = @ + 2, !.iter = @ + 1]
    /\ UNCHANGED <<particles, grid, made, reactVars, fresh, game, cluster, sim, metal, npc>>

\* One iteration of run() before the game is ready: update() returns
\* ahead of the governor.
GovWaitFrame ==
    /\ gov.iter < MaxGovFrames
    /\ gov.eval_iter = -1
    /\ gov' = [gov EXCEPT !.applied = FALSE, !.frame_index = @ + 1, !.iter = @ + 1]
    /\ UNCHANGED <<particles, grid, made, reactVars, fresh, game, cluster, sim, metal, npc>>

NextGov == GovSimFrame \/ GovMenuFrame \/ GovWaitFrame

SpecGov == Init /\ [][NextGov]_vars

\* C16: after an evaluation of the governor all material systems carry the
\* same neighbor_radius, max_neighbors and skip_mod.
C16_UniformTuning ==
    gov.applied => \A a, b \in TunedSystems : gov.tuning[a] = gov.tuning[b]

\* After an evaluation water, lava, toxic and oil carry the same settings.
WaterFamilyUniform ==
    gov.applied =>
        \A a, b \in {"water", "lava", "toxic", "oil"} : gov.tuning[a] = gov.tuning[b]

\* C17: two successive evaluations of the governor are at least 15 frames
\* (iterations of the run loop) apart.
C17_OncePerWindow ==
    gov.gap_iter # -1 => gov.gap_iter >= 15

\* Two successive evaluations are at least 15 frame indices apart and not
\* on consecutive frames.
FrameIndexGap ==
    gov.gap_iter # -1 => (gov.gap_index >= ScaleEvery /\ gov.gap_iter > 1)

\* C18: once a left-button release has been delivered no ragdoll is being
\* dragged: no NPC has user_dragging set, no drag index and no active NPC
\* is held.
C18_ReleaseEndsDrag ==
    game.up => (game.user_dragging = {} /\ game.npc_drag_index = 0
                    /\ game.active_npc = 0)

\* A release handled on the canvas with the npc tool selected drops the
\* active ragdoll and ends drawing.
ReleaseWithNpcTool ==
    (game.up /\ ~InMenu(game) /\ game.current_tool = "npc") =>
        (game.npc_drag_index = 0 /\ game.active_npc = 0 /\ ~game.is_drawing)

\* ============================================================== NPC.update
\* The standing pose is written whenever a foot is on the ground.
RigidActiveAlways(feet, dragging) == feet = 2

\* rigid_active: ground_y is known as soon as a foot is grounded.
RigidActive(feet, dragging) == feet = 2 /\ ~dragging

\* Average torso speeds, in hundredths: below the idle threshold 0.12, at
\* it, between the thresholds, above the wake threshold 0.3.
Speeds == {5, 12, 25, 31}

\* ground_y of _resolve_block_contacts given with bounds only.
GroundKnownByBounds(feet, bounds) == bounds

\* ground_y of _resolve_block_contacts is not None: a foot is grounded
\* (the mean of the grounded feet) or bounds are given (the world floor).
GroundKnown(feet, bounds) == feet > 0 \/ bounds

\* A timer counted down past zero.
TickAlways(t) == t - 1

\* The step of burn_timer and toxic_timer at every exit of update().
Tick(t) == IF t > 0 THEN t - 1 ELSE t

\* NPC.update with feet the number of feet _resolve_block_contacts finds
\* grounded, v the average torso speed and bounds saying that the world
\* bounds are passed.
Updated(n, feet, v, bounds) ==
    LET n1 == IF n.user_dragging
              THEN [n EXCEPT !.sleep_torso = FALSE, !.torso_still_frames = 0]
              ELSE n
        rigid_active == GroundKnown(feet, bounds) /\ RigidActive(feet, n.user_dragging)
        n2 == [n1 EXCEPT !.feet_grounded = feet, !.rigid = rigid_active,
                         !.was_rigid = n.rigid, !.frames = @ + 1,
                         !.drag_updates = IF n.user_dragging THEN @ + 1 ELSE 0,
                         !.grounded_frames = IF feet = 2 THEN @ + 1 ELSE 0,
                         !.calm_frames = IF feet = 2 /\ v < 12 /\ ~n.user_dragging
                                         THEN @ + 1 ELSE 0,
                         !.burn_before = n.burn_timer, !.toxic_before = n.toxic_timer,
                         !.burn_timer = Tick(@), !.toxic_timer = Tick(@),
                         !.path = IF rigid_active THEN "rigid"
                                  ELSE IF n.freeze_torso THEN "frozen" ELSE "normal"]
    IN IF rigid_active \/ n.freeze_torso THEN n2
       ELSE IF v < 12 /\ feet = 2 /\ ~n.user_dragging
       THEN [n2 EXCEPT !.torso_still_frames = @ + 1,
                       !.sleep_torso = IF n2.torso_still_frames + 1 > SleepAfter
                                       THEN TRUE ELSE @]
       ELSE [n2 EXCEPT !.torso_still_frames = 0,
                       !.sleep_torso = IF v > 30 THEN FALSE ELSE @]

\* A foot can be grounded on the world floor (bounds) or on a solid cell.
NpcUpdate ==
    /\ npc.frames < MaxNpcFrames
    /\ \E feet \in 0..2, v \in Speeds, bounds \in BOOLEAN :
          npc' = Updated(npc, feet, v, bounds)
    /\ UNCHANGED <<particles, grid, made, reactVars, fresh, game, cluster, sim, metal, gov>>

\* NPC.set_user_dragging(dragging).
NpcSetUserDragging ==
    /\ \E dragging \in BOOLEAN :
          npc' = [npc EXCEPT !.user_dragging = dragging, !.drag_updates = 0,
                             !.path = "none"]
    /\ UNCHANGED <<particles, grid, made, reactVars, fresh, game, cluster, sim, metal, gov>>

\* The attribute freeze_torso is assigned.
NpcSetFreeze ==
    /\ \E freeze \in BOOLEAN :
          /\ freeze # npc.freeze_torso
          /\ npc' = [npc EXCEPT !.freeze_torso = freeze, !.path = "none"]
    /\ UNCHANGED <<particles, grid, made, reactVars, fresh, game, cluster, sim, metal, gov>>

\* _handle_npc_hazards: a particle of the ragdoll touches lava
\* (burn_timer = max(burn_timer, 45)) or else toxic (toxic_timer likewise
\* with 90).
NpcHazard ==
    /\ \E lava \in BOOLEAN :
          npc' = IF lava
                 THEN [npc EXCEPT !.path = "none",
                          !.burn_timer = IF @ > BurnFrames THEN @ ELSE BurnFrames]
                 ELSE [npc EXCEPT !.path = "none",
                          !.toxic_timer = IF @ > ToxicFrames THEN @ ELSE ToxicFrames]
    /\ UNCHANGED <<particles, grid, made, reactVars, fresh, game, cluster, sim, metal, gov>>

NextNpc == NpcUpdate \/ NpcSetUserDragging \/ NpcSetFreeze \/ NpcHazard

SpecNpc == Init /\ [][NextNpc]_vars

\* C19: while user_dragging stays True, every update() after
\* set_user_dragging(True) leaves the standing pose unapplied and returns
\* with _sleep_torso = False and _torso_still_frames = 0.
C19_DragClearsRigid ==
    (npc.user_dragging /\ npc.drag_updates >= 1) =>
        (~npc.rigid /\ ~npc.sleep_torso /\ npc.torso_still_frames = 0)

\* The ragdoll stood rigid, was grabbed, and update() ran with both feet on
\* the ground.
C19_Witness ==
    /\ npc.user_dragging /\ npc.drag_updates >= 1
    /\ npc.was_rigid /\ npc.feet_grounded = 2

\* C20: the standing pose is written only when both feet have been grounded
\* and the torso slow, the user not dragging, for more than one consecutive
\* frame: never in the frame in which both feet first touch the ground.
C20_RigidAfterCalm ==
    npc.rigid => (npc.grounded_frames > 1 /\ npc.calm_frames > 1)

\* The standing pose is written only with both feet grounded and not in
\* an update() that runs while the user is dragging.
RigidOnlyGrounded ==
    npc.rigid => (npc.feet_grounded = 2 /\ (npc.user_dragging => npc.drag_updates = 0))

\* C28: every update() lowers a positive burn_timer and toxic_timer by one
\* and leaves a timer at 0 where it is, on the rigid, the frozen and the
\* normal exit; no timer is ever negative.
C28_TimersFloored ==
    /\ npc.burn_timer >= 0 /\ npc.toxic_timer >= 0
    /\ npc.path \in {"rigid", "frozen", "normal"} =>
          /\ npc.burn_timer = IF npc.burn_before > 0 THEN npc.burn_before - 1 ELSE 0
          /\ npc.toxic_timer = IF npc.toxic_before > 0 THEN npc.toxic_before - 1 ELSE 0

\* An update() through the frozen exit counted a burning ragdoll's timer
\* down for the second time and left the toxic timer at 0.
C28_Witness ==
    /\ npc.path = "frozen"
    /\ npc.burn_before = BurnFrames - 1 /\ npc.burn_timer = BurnFrames - 2
    /\ npc.toxic_before = 0 /\ npc.toxic_timer = 0

\* C29: _sleep_torso is False and _torso_still_frames is 0 in every state.
C29_NeverSleeps ==
    ~npc.sleep_torso /\ npc.torso_still_frames = 0

\* Two updates in a row with both feet grounded, the torso below the idle
\* threshold and no drag, freeze_torso never set.
C29_Witness ==
    /\ npc.calm_frames >= 2 /\ ~npc.freeze_torso /\ npc.path = "rigid"
    /\ ~npc.user_dragging

\* _apply_motors: the share of the distance to the target a particle is
\* moved by (sx, sy and gain in tenths), and the cap of the move in pixels.
MotorSx(i) == CASE i \in {7, 8} -> 5 [] i \in Torso -> 9 [] OTHER -> 10
MotorSy(i) == CASE i \in {7, 8} -> 10 [] i \in Torso -> 9 [] OTHER -> 10
MotorGain(i) == CASE i \in {7, 8} -> 8 [] i = 0 -> 5 [] i \in Torso -> 6 [] OTHER -> 10
MotorCap(i) == CASE i \in {7, 8} -> 8 [] i = 0 -> 6 [] i \in Torso -> 7 [] OTHER -> 8

\* k = min(1, max(0, dt * 60)) for the dt * 0.6 the stand controller is
\* called with, in thousandths.
MotorK == Min2(1000, Frac(36000, 1, Fps))

\* _stand_targets with a ground: the pose the motors pull towards, around
\* the anchor x.
StandTargets(b, base_x) ==
    LET t4 == Min2(Ground(b) - 60 * Unit, b.pos[4 + 1][2])
        t2 == t4 - 44 * Unit
    IN Each(LAMBDA i :
          CASE i = 4 -> <<base_x, t4>>
            [] i = 3 -> <<base_x, t4 - 22 * Unit>>
            [] i = 2 -> <<base_x, t2>>
            [] i = 1 -> <<base_x, t2 - 22 * Unit>>
            [] i = 0 -> <<base_x, t2 - 22 * Unit - Frac(28 * Unit, 6, 10)>>
            [] i = 5 -> <<base_x - 18 * Unit, t2 + 14 * Unit>>
            [] i = 6 -> <<base_x + 18 * Unit, t2 + 14 * Unit>>
            [] i = 7 -> <<base_x - 14 * Unit, Ground(b)>>
            [] OTHER -> <<base_x + 14 * Unit, Ground(b)>>)

\* The move _apply_motors gives particle i for the distance d on one axis.
MotorMove(i, d, share) ==
    LET m == Frac(d, share, 1000)
        cap == MotorCap(i) * Unit
    IN IF m > cap THEN cap ELSE IF m < -cap THEN -cap ELSE m

\* _apply_stand_controller and _apply_motors: every particle is moved
\* towards its target and damped; a particle slower than 0.3 is stopped.
Stand(b, dragging, sleeping) ==
    LET fx == FeetX(b)
        strength == IF dragging THEN 6 ELSE 8
        damping == IF dragging THEN 900 ELSE 925
    IN With(IF b.anchored THEN Frac(b.anchor * 85 + fx * 15, 1, 100) ELSE fx, LAMBDA base_x :
       With(StandTargets(b, base_x), LAMBDA tg :
       With(Each(LAMBDA i :
            LET t == IF sleeping /\ i \in Torso THEN b.pos[i + 1] ELSE tg[i + 1]
                dx == t[1] - b.pos[i + 1][1]
                dy == t[2] - b.pos[i + 1][2]
            IN IF (sleeping /\ i \in Torso) \/ (2 * Abs(dx) < Unit /\ 2 * Abs(dy) < Unit)
               THEN <<b.pos[i + 1], b.prev[i + 1]>>
               ELSE LET x == b.pos[i + 1][1]
                             + MotorMove(i, dx, (strength * 5 * MotorK * MotorSx(i) * MotorGain(i)) \div 1000)
                        y == b.pos[i + 1][2]
                             + MotorMove(i, dy, (strength * MotorK * MotorSy(i) * MotorGain(i)) \div 100)
                    IN << <<x, y>>,
                          <<x - Frac(x - b.prev[i + 1][1], damping, 1000),
                            y - Frac(y - b.prev[i + 1][2], damping, 1000)>> >>), LAMBDA moved :
         [b EXCEPT !.anchored = TRUE, !.anchor = base_x,
                   !.pos = Each(LAMBDA i : moved[i + 1][1]),
                   !.prev = Each(LAMBDA i :
                               LET vx == moved[i + 1][1][1] - moved[i + 1][2][1]
                                   vy == moved[i + 1][1][2] - moved[i + 1][2][2]
                               IN IF 100 * (vx * vx + vy * vy) < 9 * Unit * Unit
                                  THEN moved[i + 1][1] ELSE moved[i + 1][2])])))

\* One constraint of the relaxation loop applied to the positions: both
\* ends are moved by half the error, and once more when the constraint is
\* stretched beyond 1.3 times its rest length.
Relax1(pos, k) ==
    LET a == Constraints[k][1]
        c == Constraints[k][2]
        dx == pos[c + 1][1] - pos[a + 1][1]
        dy == pos[c + 1][2] - pos[a + 1][2]
    IN With(Rest(k), LAMBDA rl :
       With(Length(dx, dy), LAMBDA d :
       IF d = 0 THEN pos
       ELSE LET cx == Frac(dx * (d - rl), 1, 2 * d)
                cy == Frac(dy * (d - rl), 1, 2 * d)
                far == 10 * d > 13 * rl
                e == Frac(10 * d - 11 * rl, 1, 10)
                ax == IF far THEN Frac(dx * e, 1, 5 * d) ELSE 0
                ay == IF far THEN Frac(dy * e, 1, 5 * d) ELSE 0
            IN [pos EXCEPT ![a + 1] = <<pos[a + 1][1] + cx - ax, pos[a + 1][2] + cy - ay>>,
                           ![c + 1] = <<pos[c + 1][1] - cx + ax, pos[c + 1][2] - cy + ay>>]))

\* self.iterations
Iterations == 6

\* One pass of the relaxation loop over the constraints from the k-th on.
RECURSIVE Sweep(_, _)
Sweep(pos, k) ==
    IF k > Len(Constraints) THEN pos
    ELSE With(Relax1(pos, k), LAMBDA q : Sweep(q, k + 1))

\* The relaxation loop: n passes over the constraints.
RECURSIVE Relax(_, _)
Relax(pos, n) ==
    IF n = 0 THEN pos
    ELSE With(Sweep(pos, 1), LAMBDA q : Relax(q, n - 1))

\* The frozen exit of update(): the torso is stacked over the pelvis, which
\* is moved to the middle of the feet.
FrozenTorso(b) ==
    LET p == Each(LAMBDA i :
                IF i \in Torso THEN <<FeetX(b), b.pos[4 + 1][2] - (120 - 30 * i) * Unit>>
                ELSE b.pos[i + 1])
    IN [b EXCEPT !.pos = p,
                 !.prev = Each(LAMBDA i : IF i \in Torso THEN p[i + 1] ELSE b.prev[i + 1])]

\* The normal exit of update(): the torso is pulled to its mean x and its
\* speed cut to 0.6.
SmoothTorso(b) ==
    LET avg_x == Frac(b.pos[0 + 1][1] + b.pos[1 + 1][1] + b.pos[2 + 1][1] + b.pos[3 + 1][1] + b.pos[4 + 1][1], 1, 5)
        p == Each(LAMBDA i :
                IF i \in Torso THEN <<Frac(9 * b.pos[i + 1][1] + avg_x, 1, 10), b.pos[i + 1][2]>>
                ELSE b.pos[i + 1])
    IN [b EXCEPT !.pos = p,
                 !.prev = Each(LAMBDA i :
                             IF i \in Torso
                             THEN <<p[i + 1][1] - Frac(p[i + 1][1] - b.prev[i + 1][1], 6, 10),
                                    p[i + 1][2] - Frac(p[i + 1][2] - b.prev[i + 1][2], 6, 10)>>
                             ELSE b.prev[i + 1])]

Speed(b, i) == Length(b.pos[i + 1][1] - b.prev[i + 1][1], b.pos[i + 1][2] - b.prev[i + 1][2])

\* avg_v, the mean speed of the torso particles.
TorsoSpeed(b) == Frac(Speed(b, 0) + Speed(b, 1) + Speed(b, 2) + Speed(b, 3) + Speed(b, 4), 1, 5)

\* The particles in stop lose their speed.
Stopped(b, stop) == [b EXCEPT !.prev = Each(LAMBDA i : IF i \in stop THEN b.pos[i + 1] ELSE b.prev[i + 1])]

\* NPC.update(dt, bounds) with dt = 1 / Fps and no solid_query, on the
\* ragdoll n: the new ragdoll.  still counts the updates in a row that have
\* ended on the rigid exit.
BodyUpdated(n) ==
    LET dragging == n.user_dragging
        sleeping == n.sleep_torso /\ ~dragging
        still == IF dragging THEN 0 ELSE n.torso_still_frames
        frame == n.frames + 1
        m == [n EXCEPT !.frames = frame,
                       !.burn_before = n.burn_timer, !.toxic_before = n.toxic_timer,
                       !.burn_timer = Tick(@), !.toxic_timer = Tick(@),
                       !.sleep_torso = sleeping, !.torso_still_frames = still]
    IN With(Integrate(n.body, n.freeze_torso \/ sleeping), LAMBDA b0 :
       With(CapStep(b0), LAMBDA c0 :
       With(ClampAll(c0), LAMBDA b1 :
       With(Contacts(b1), LAMBDA b2 :
         LET feet == FeetGrounded(b1)
             rigid_active == GroundKnown(feet, TRUE) /\ RigidActive(feet, dragging)
             r == [m EXCEPT !.feet_grounded = feet, !.rigid = rigid_active]
         IN IF rigid_active
            THEN With(ClampAll(StandingPose(b2)), LAMBDA b6 :
                   [r EXCEPT !.path = "rigid",
                             !.body = [b6 EXCEPT !.prev = b6.pos, !.still = n.body.still + 1]])
            ELSE IF n.freeze_torso
            THEN With(ClampAll(b2), LAMBDA b6 :
                   [r EXCEPT !.path = "frozen", !.body = [FrozenTorso(b6) EXCEPT !.still = 0]])
            ELSE
              With(IF frame % 2 = 0 THEN Stand(b2, dragging, sleeping) ELSE b2, LAMBDA b4 :
              With(Relax(b4.pos, Iterations), LAMBDA q :
              With(ClampAll([b4 EXCEPT !.pos = q]), LAMBDA b6 :
              With(SmoothTorso(b6), LAMBDA b7 :
              With(TorsoSpeed(b7), LAMBDA avg_v :
                LET calm == 100 * avg_v < 12 * Unit /\ feet = 2 /\ ~dragging
                    count == IF calm THEN still + 1 ELSE 0
                    sleep == IF calm THEN sleeping \/ count > SleepAfter
                             ELSE sleeping /\ ~(10 * avg_v > 3 * Unit)
                    slow == {i \in {0, 1} :
                               LET vx == b7.pos[i + 1][1] - b7.prev[i + 1][1]
                                   vy == b7.pos[i + 1][2] - b7.prev[i + 1][2]
                               IN 100 * (vx * vx + vy * vy) < 4 * Unit * Unit}
                    b8 == IF sleep /\ feet = 2 /\ ~dragging THEN Stopped(b7, Torso)
                          ELSE IF feet = 2 /\ ~dragging /\ 100 * avg_v < 25 * Unit
                          THEN Stopped(b7, slow) ELSE b7
                IN [r EXCEPT !.path = "normal", !.sleep_torso = sleep,
                             !.torso_still_frames = count,
                             !.body = [b8 EXCEPT !.still = 0]])))))))))

\* The worlds (width, height) and the points a ragdoll is spawned at.
Worlds == {<<200, 300>>}
SpawnPoints == {<<100, 100>>, <<100, 30>>, <<6, 150>>, <<100, 170>>}

\* NPC(x, y), in a world of the size update() is given as bounds.
BodySpawn ==
    /\ ~npc.body.spawned
    /\ \E wh \in Worlds, pt \in SpawnPoints :
          npc' = [npc EXCEPT !.body = [InitBody EXCEPT
                     !.spawned = TRUE, !.w = wh[1], !.h = wh[2], !.at = pt,
                     !.pos = SpawnAt(pt[1], pt[2]), !.prev = SpawnAt(pt[1], pt[2])]]
    /\ UNCHANGED <<particles, grid, made, reactVars, fresh, game, cluster, sim, metal, gov>>

\* npc.update(dt, bounds = (game_width, height)), once per frame of run().
BodyUpdate ==
    /\ npc.body.spawned
    /\ npc.frames < MaxBodyFrames
    /\ npc' = BodyUpdated(npc)
    /\ UNCHANGED <<particles, grid, made, reactVars, fresh, game, cluster, sim, metal, gov>>

\* npc.freeze_torso = True.
BodyFreeze ==
    /\ npc.body.spawned
    /\ ~npc.freeze_torso
    /\ npc.frames < MaxBodyFrames
    /\ npc' = [npc EXCEPT !.freeze_torso = TRUE, !.path = "none"]
    /\ UNCHANGED <<particles, grid, made, reactVars, fresh, game, cluster, sim, metal, gov>>

NextBody == BodySpawn \/ BodyUpdate \/ BodyFreeze

SpecBody == Init /\ [][NextBody]_vars

\* run() calls update() in every iteration and update() every ragdoll's
\* update(): the call is never put off for ever.
SpecBodyFair == SpecBody /\ WF_vars(BodyUpdate)

\* The distance between the ends of the k-th constraint.
Dist(b, k) ==
    Length(b.pos[Constraints[k][2] + 1][1] - b.pos[Constraints[k][1] + 1][1],
           b.pos[Constraints[k][2] + 1][2] - b.pos[Constraints[k][1] + 1][2])

\* Both feet within one pixel of the world ground.
FeetOnFloor(b) ==
    \A i \in {7, 8} : Abs(b.pos[i + 1][2] - Ground(b)) <= Unit

\* The Grounded/RigidStanding state: the last update() counted two grounded
\* feet and wrote the standing pose.
Standing ==
    /\ npc.body.spawned /\ npc.rigid /\ npc.feet_grounded = 2
    /\ FeetOnFloor(npc.body)

\* The ragdoll was spawned with its feet above the world ground.
SpawnedAbove ==
    npc.body.spawned /\ (npc.body.at[2] + Layout[7 + 1][2]) * Unit < Ground(npc.body)

\* All nine particles inside [0, w - 1] x [0, h - 1].
InBounds(b) ==
    \A i \in Parts :
        /\ 0 <= b.pos[i + 1][1] /\ b.pos[i + 1][1] <= (b.w - 1) * Unit
        /\ 0 <= b.pos[i + 1][2] /\ b.pos[i + 1][2] <= (b.h - 1) * Unit

\* C21: a ragdoll spawned above the floor and updated again and again
\* without a drag comes to stand, both feet within one pixel of the floor
\* and two feet grounded, and stands from then on.
C21_DropsAndStands ==
    [](SpawnedAbove => <>[]Standing)

\* The ragdoll spawned at (100, 100), 199 pixels above the floor, stands on
\* it after it has fallen for ten updates.
C21_Witness ==
    /\ Standing /\ SpawnedAbove /\ npc.body.at = <<100, 100>>
    /\ npc.frames > 10 /\ npc.path = "rigid" /\ ~npc.freeze_torso
    /\ npc.body.pos[7 + 1][2] = Ground(npc.body)

\* C22: once the ragdoll has stood undisturbed for Several updates, every
\* constraint is within a tenth of its rest length at the end of update().
C22_ConstraintsKept ==
    (npc.path = "rigid" /\ npc.body.still >= Several /\ ~npc.user_dragging)
        => \A k \in 1..Len(Constraints) :
              10 * Abs(Dist(npc.body, k) - Rest(k)) < Rest(k)

\* C27: after every update() all nine particles are inside the bounds,
\* whichever exit update() has taken.
C27_InBounds ==
    npc.path \in {"rigid", "frozen", "normal"} => InBounds(npc.body)

====
